---- MODULE Spec2Model ----
(***************************************************************************)
(* lightweight-mysql-orm: the entity catalog (decorators and the metadata  *)
(* store), the clause renderer, the row mapper, the relation resolver and  *)
(* the repository operations of src/core/BaseRepository.ts, run against a  *)
(* small MySQL table store that executes the rendered statements.          *)
(*                                                                         *)
(* JavaScript scalars are strings here: "null", "undefined", "true",       *)
(* "false", numbers as "1", "2", ..., dates as "Date(t1)"; a JavaScript    *)
(* object is the sequence of its [k, v] entries in insertion order.        *)
(***************************************************************************)
EXTENDS Integers, Sequences, FiniteSets, TLC

\* decl:    the decorators evaluated so far, in order
\* store:   the metadata store (class -> entity metadata)
\* repo:    the entity class the repository under test was constructed for
\* db:      the tables of the connection (table name -> rows)
\* last:    the last repository call: its inputs, what it returned or threw,
\*          the queries it sent and the tables before it
\* prevMut: the delete call, when the mutation that completed before last
\*          was a delete
\* tx:      the run of transaction(): where it is, the connections it took
\*          and gave back, the calls on the connection, the tables as the
\*          open transaction sees them, and how it ended
\* flight:  a call carried out statement by statement: where it is, how many
\*          statements it has dispatched, the statements awaiting the
\*          connection's answer, and the error the caller received
VARIABLES decl, store, repo, db, last, prevMut, tx, flight

vars == <<decl, store, repo, db, last, prevMut, tx, flight>>

NULL == "null"
UNDEF == "undefined"

(***************************************************************************)
(* Sequences and objects                                                   *)
(***************************************************************************)
Range(s) == {s[i] : i \in 1..Len(s)}

RECURSIVE Flatten(_)
Flatten(ss) == IF ss = <<>> THEN <<>> ELSE Head(ss) \o Flatten(Tail(ss))

RECURSIVE SelectSeqIdx(_, _)
\* the indices i of s, ascending, with keep[i]
SelectSeqIdx(keep, n) ==
    IF n = 0 THEN <<>>
    ELSE IF keep[n] THEN Append(SelectSeqIdx(keep, n - 1), n)
         ELSE SelectSeqIdx(keep, n - 1)

Filter(s, Test(_)) ==
    LET idx == SelectSeqIdx([i \in 1..Len(s) |-> Test(s[i])], Len(s))
    IN  [j \in 1..Len(idx) |-> s[idx[j]]]

\* Body applied to the value v: v is computed once and named in Body
With(v, Body(_)) == Body(v)

Has(o, k) == \E i \in 1..Len(o) : o[i].k = k

Get(o, k) ==
    IF Has(o, k) THEN o[CHOOSE i \in 1..Len(o) : o[i].k = k].v ELSE UNDEF

Put(o, k, v) ==
    IF Has(o, k)
    THEN [i \in 1..Len(o) |-> IF o[i].k = k THEN [k |-> k, v |-> v] ELSE o[i]]
    ELSE Append(o, [k |-> k, v |-> v])

\* Object.assign(target, source)
RECURSIVE Assign(_, _)
Assign(target, source) ==
    IF source = <<>> THEN target
    ELSE Assign(Put(target, Head(source).k, Head(source).v), Tail(source))

Truthy(v) == v \notin {NULL, UNDEF, "false", "0", ""}

\* a ?? b
Nullish(a, b) == IF a \in {NULL, UNDEF} THEN b ELSE a

\* a || b
OrElse(a, b) == IF Truthy(a) THEN a ELSE b

(***************************************************************************)
(* Entity metadata store (core/EntityMetadata.ts) and the decorators       *)
(***************************************************************************)
NoHooks == [beforeSave |-> UNDEF, afterLoad |-> UNDEF]

\* a class the Map has no entry for
Absent ==
    [present |-> FALSE, tableName |-> "", softDelete |-> UNDEF,
     softDeleteColumn |-> UNDEF, columns |-> <<>>, relations |-> <<>>,
     transformHooks |-> NoHooks]

\* the shell getEntityMetadata creates and saves on a miss
Shell ==
    [present |-> TRUE, tableName |-> "", softDelete |-> "false",
     softDeleteColumn |-> UNDEF, columns |-> <<>>, relations |-> <<>>,
     transformHooks |-> NoHooks]

getEntityMetadata(st, target) ==
    IF st[target].present THEN st[target] ELSE Shell

saveEntityMetadata(st, target, metadata) == [st EXCEPT ![target] = metadata]

createColumnMetadata(options) ==
    [propertyKey |-> OrElse(options.propertyKey, ""),
     columnName  |-> OrElse(options.columnName, OrElse(options.propertyKey, "")),
     type        |-> OrElse(options.type, "string"),
     hidden      |-> Nullish(options.hidden, "false"),
     primary     |-> Nullish(options.primary, "false"),
     softDelete  |-> Nullish(options.softDelete, "false")]

\* @Column(options) on property propertyKey of class cls
Column(st, cls, propertyKey, options) ==
    LET entityMetadata == getEntityMetadata(st, cls)
        columnMetadata == createColumnMetadata(
            [propertyKey |-> propertyKey,
             columnName  |-> OrElse(options.name, propertyKey),
             type        |-> OrElse(options.type, "string"),
             hidden      |-> Nullish(options.hidden, "false"),
             primary     |-> Nullish(options.primary, "false"),
             softDelete  |-> Nullish(options.softDelete, "false")])
        withColumn == [entityMetadata EXCEPT
                          !.columns = Append(@, columnMetadata)]
        marked == IF columnMetadata.softDelete = "true"
                  THEN [withColumn EXCEPT
                           !.softDelete = "true",
                           !.softDeleteColumn = columnMetadata.columnName]
                  ELSE withColumn
    IN  saveEntityMetadata(st, cls, marked)

\* @Entity(options) on class cls
Entity(st, cls, options) ==
    LET metadata == getEntityMetadata(st, cls)
    IN  saveEntityMetadata(st, cls,
            [metadata EXCEPT
                !.tableName = options.tableName,
                !.softDelete =
                    Nullish(metadata.softDelete,
                        Nullish(options.softDelete,
                            IF Truthy(options.softDeleteColumn)
                            THEN "true" ELSE "false")),
                !.softDeleteColumn =
                    Nullish(metadata.softDeleteColumn,
                        Nullish(options.softDeleteColumn,
                            IF Truthy(options.softDelete)
                            THEN "deleted_at" ELSE UNDEF))])

\* hasWhere: the relation's where is an object (where holds its entries)
NoRelationFields ==
    [foreignKey |-> UNDEF, localKey |-> UNDEF, inverseSide |-> UNDEF,
     joinTableName |-> UNDEF, joinColumnName |-> UNDEF,
     inverseJoinColumnName |-> UNDEF, hasWhere |-> FALSE, where |-> <<>>]

createRelationMetadata(r) ==
    LET base == [NoRelationFields EXCEPT !.hasWhere = r.hasWhere,
                                             !.where = r.where] @@
                [type |-> r.type, propertyKey |-> OrElse(r.propertyKey, ""),
                 target |-> r.target]
    IN  CASE r.type = "OneToOne" ->
                [base EXCEPT !.foreignKey = r.foreignKey, !.localKey = r.localKey]
          [] r.type = "OneToMany" ->
                [base EXCEPT !.foreignKey = r.foreignKey,
                             !.inverseSide = r.inverseSide]
          [] r.type = "ManyToOne" ->
                [base EXCEPT !.foreignKey = r.foreignKey]
          [] r.type = "ManyToMany" ->
                [base EXCEPT !.joinTableName = r.joinTableName,
                             !.joinColumnName = r.joinColumnName,
                             !.inverseJoinColumnName = r.inverseJoinColumnName]

\* @OneToOne / @OneToMany / @ManyToOne / @ManyToMany on a property of cls
Relation(st, cls, r) ==
    LET entityMetadata == getEntityMetadata(st, cls)
    IN  saveEntityMetadata(st, cls,
            [entityMetadata EXCEPT
                !.relations = Append(@, createRelationMetadata(r))])

\* @AfterLoad() on method hook of cls
AfterLoad(st, cls, hook) ==
    LET metadata == getEntityMetadata(st, cls)
    IN  saveEntityMetadata(st, cls,
            [metadata EXCEPT !.transformHooks.afterLoad = hook])

\* @BeforeSave() on method hook of cls
BeforeSave(st, cls, hook) ==
    LET metadata == getEntityMetadata(st, cls)
    IN  saveEntityMetadata(st, cls,
            [metadata EXCEPT !.transformHooks.beforeSave = hook])

(***************************************************************************)
(* The entity classes: each is the sequence of its decorators in the order *)
(* TypeScript evaluates them (members in declaration order, the class      *)
(* decorator last).  User, Post and Comment are the test fixture.  DocUser, *)
(* DocPost and Role are declared in the README's style (@Entity with       *)
(* softDelete: true, posts/user/roles relations) with every property named *)
(* like its column, the foreign key declared as a column and no hook.      *)
(* Member, Profile and Log are further inputs: a soft-delete entity, and   *)
(* relations whose metadata lacks a primary key or the inverse relation.   *)
(***************************************************************************)
ClassName(cls) ==
    CASE cls = "DocUser" -> "User"
      [] cls = "DocPost" -> "Post"
      [] OTHER -> cls

NoColumnOptions ==
    [name |-> UNDEF, type |-> UNDEF, hidden |-> UNDEF, primary |-> UNDEF,
     softDelete |-> UNDEF]

NoEntityOptions ==
    [tableName |-> "", softDelete |-> UNDEF, softDeleteColumn |-> UNDEF]

PrimaryNumber == [NoColumnOptions EXCEPT !.primary = "true", !.type = "number"]

Col(cls, propertyKey, options) ==
    [d |-> "Column", cls |-> cls, propertyKey |-> propertyKey, options |-> options]

Rel(cls, r) == [d |-> "Relation", cls |-> cls, r |-> r]

Ent(cls, options) == [d |-> "Entity", cls |-> cls, options |-> options]

Hook(cls, hook) == [d |-> "AfterLoad", cls |-> cls, hook |-> hook]

SaveHook(cls, hook) == [d |-> "BeforeSave", cls |-> cls, hook |-> hook]

RelationOptions(type, propertyKey, target) ==
    NoRelationFields @@
    [type |-> type, propertyKey |-> propertyKey, target |-> target]

FixtureUser ==
    << Col("User", "id", PrimaryNumber),
       Col("User", "name", NoColumnOptions),
       Col("User", "email", [NoColumnOptions EXCEPT !.hidden = "true"]),
       Col("User", "createdAt",
           [NoColumnOptions EXCEPT !.name = "created_at", !.type = "date"]),
       Col("User", "deletedAt",
           [NoColumnOptions EXCEPT !.name = "deleted_at", !.type = "date",
                                   !.softDelete = "true", !.hidden = "true"]),
       Rel("User", [RelationOptions("OneToMany", "posts", "Post")
                       EXCEPT !.inverseSide = "user"]),
       Hook("User", "calculatePostCount"),
       Ent("User", [NoEntityOptions EXCEPT !.tableName = "test_users"]) >>

FixturePost ==
    << Col("Post", "id", PrimaryNumber),
       Col("Post", "title", NoColumnOptions),
       Col("Post", "userId",
           [NoColumnOptions EXCEPT !.name = "user_id", !.type = "number"]),
       Rel("Post", [RelationOptions("ManyToOne", "user", "User")
                       EXCEPT !.foreignKey = "user_id"]),
       Rel("Post", [RelationOptions("OneToMany", "comments", "Comment")
                       EXCEPT !.inverseSide = "post"]),
       Ent("Post", [NoEntityOptions EXCEPT !.tableName = "test_posts"]) >>

FixtureComment ==
    << Col("Comment", "id", PrimaryNumber),
       Col("Comment", "content", NoColumnOptions),
       Col("Comment", "postId",
           [NoColumnOptions EXCEPT !.name = "post_id", !.type = "number"]),
       Rel("Comment", [RelationOptions("ManyToOne", "post", "Post")
                          EXCEPT !.foreignKey = "post_id"]),
       Ent("Comment", [NoEntityOptions EXCEPT !.tableName = "test_comments"]) >>

DocUserClass ==
    << Col("DocUser", "id", PrimaryNumber),
       Col("DocUser", "name", [NoColumnOptions EXCEPT !.type = "string"]),
       Col("DocUser", "email", [NoColumnOptions EXCEPT !.type = "string"]),
       Col("DocUser", "created_at",
           [NoColumnOptions EXCEPT !.type = "date", !.hidden = "true"]),
       Rel("DocUser", [RelationOptions("OneToMany", "posts", "DocPost")
                          EXCEPT !.inverseSide = "user"]),
       Rel("DocUser", [RelationOptions("ManyToMany", "roles", "Role")
                          EXCEPT !.joinTableName = "user_roles",
                                 !.joinColumnName = "user_id",
                                 !.inverseJoinColumnName = "role_id"]),
       Ent("DocUser", [NoEntityOptions EXCEPT !.tableName = "users",
                                              !.softDelete = "true"]) >>

DocPostClass ==
    << Col("DocPost", "id", PrimaryNumber),
       Col("DocPost", "title", [NoColumnOptions EXCEPT !.type = "string"]),
       Col("DocPost", "content", [NoColumnOptions EXCEPT !.type = "string"]),
       Col("DocPost", "user_id", [NoColumnOptions EXCEPT !.type = "number"]),
       Rel("DocPost", [RelationOptions("ManyToOne", "user", "DocUser")
                          EXCEPT !.foreignKey = "user_id"]),
       Ent("DocPost", [NoEntityOptions EXCEPT !.tableName = "posts"]) >>

RoleClass ==
    << Col("Role", "id", PrimaryNumber),
       Col("Role", "name", [NoColumnOptions EXCEPT !.type = "string"]),
       Ent("Role", [NoEntityOptions EXCEPT !.tableName = "roles"]) >>

\* a soft-delete entity whose soft-delete property is named like its column
MemberClass ==
    << Col("Member", "id", PrimaryNumber),
       Col("Member", "name", NoColumnOptions),
       Col("Member", "deleted_at",
           [NoColumnOptions EXCEPT !.type = "date", !.softDelete = "true"]),
       Rel("Member", [RelationOptions("OneToOne", "profile", "Profile")
                         EXCEPT !.foreignKey = "id", !.localKey = "member_id"]),
       Rel("Member", [RelationOptions("OneToMany", "logs", "Log")
                         EXCEPT !.inverseSide = "owner"]),
       Ent("Member", [NoEntityOptions EXCEPT !.tableName = "members"]) >>

ProfileClass ==
    << Col("Profile", "id", PrimaryNumber),
       Col("Profile", "member_id", [NoColumnOptions EXCEPT !.type = "number"]),
       Ent("Profile", [NoEntityOptions EXCEPT !.tableName = "profiles"]) >>

\* an entity without a primary key and without the inverse relation "owner"
LogClass ==
    << Col("Log", "message", NoColumnOptions),
       Col("Log", "member_id", [NoColumnOptions EXCEPT !.type = "number"]),
       Rel("Log", [RelationOptions("ManyToOne", "member", "Member")
                      EXCEPT !.foreignKey = "member_id"]),
       Rel("Log", [RelationOptions("OneToMany", "entries", "Profile")
                      EXCEPT !.inverseSide = "log"]),
       Rel("Log", [RelationOptions("ManyToMany", "roles", "Role")
                      EXCEPT !.joinTableName = "log_roles",
                             !.joinColumnName = "log_id",
                             !.inverseJoinColumnName = "role_id"]),
       Ent("Log", [NoEntityOptions EXCEPT !.tableName = "logs"]) >>

\* an entity with a beforeSave hook that sets this.name and returns nothing
AccountClass ==
    << Col("Account", "id", PrimaryNumber),
       Col("Account", "name", NoColumnOptions),
       SaveHook("Account", "stampName"),
       Ent("Account", [NoEntityOptions EXCEPT !.tableName = "accounts"]) >>

\* an entity whose primary key is a string the application assigns
CountryClass ==
    << Col("Country", "code", [NoColumnOptions EXCEPT !.primary = "true"]),
       Col("Country", "name", NoColumnOptions),
       Ent("Country", [NoEntityOptions EXCEPT !.tableName = "countries"]) >>

\* an entity with a column of each type of ColumnOptions.type
EventClass ==
    << Col("Event", "id", PrimaryNumber),
       Col("Event", "name", [NoColumnOptions EXCEPT !.type = "string"]),
       Col("Event", "active", [NoColumnOptions EXCEPT !.type = "boolean"]),
       Col("Event", "occurredAt",
           [NoColumnOptions EXCEPT !.type = "date", !.name = "occurred_at"]),
       Col("Event", "payload", [NoColumnOptions EXCEPT !.type = "json"]),
       Ent("Event", [NoEntityOptions EXCEPT !.tableName = "events"]) >>

\* an entity with a relation of each kind to a soft-delete target
TeamClass ==
    << Col("Team", "id", PrimaryNumber),
       Col("Team", "name", NoColumnOptions),
       Col("Team", "owner_id", [NoColumnOptions EXCEPT !.type = "number"]),
       Col("Team", "lead_id", [NoColumnOptions EXCEPT !.type = "number"]),
       Rel("Team", [RelationOptions("ManyToMany", "members", "Member")
                       EXCEPT !.joinTableName = "team_members",
                              !.joinColumnName = "team_id",
                              !.inverseJoinColumnName = "member_id"]),
       Rel("Team", [RelationOptions("ManyToOne", "owner", "Member")
                       EXCEPT !.foreignKey = "owner_id"]),
       Rel("Team", [RelationOptions("OneToOne", "lead", "Member")
                       EXCEPT !.foreignKey = "lead_id"]),
       Rel("Team", [RelationOptions("OneToMany", "seats", "Seat")
                       EXCEPT !.inverseSide = "team"]),
       Ent("Team", [NoEntityOptions EXCEPT !.tableName = "teams"]) >>

SeatClass ==
    << Col("Seat", "id", PrimaryNumber),
       Col("Seat", "team_id", [NoColumnOptions EXCEPT !.type = "number"]),
       Col("Seat", "deleted_at",
           [NoColumnOptions EXCEPT !.type = "date", !.softDelete = "true"]),
       Rel("Seat", [RelationOptions("ManyToOne", "team", "Team")
                       EXCEPT !.foreignKey = "team_id"]),
       Ent("Seat", [NoEntityOptions EXCEPT !.tableName = "seats"]) >>

Classes ==
    {"User", "Post", "Comment", "DocUser", "DocPost", "Role", "Member",
     "Profile", "Log", "Item", "Account", "Event", "Country", "Team", "Seat",
     "Plain"}

Decorate(st, s) ==
    CASE s.d = "Column"    -> Column(st, s.cls, s.propertyKey, s.options)
      [] s.d = "Relation"  -> Relation(st, s.cls, s.r)
      [] s.d = "AfterLoad" -> AfterLoad(st, s.cls, s.hook)
      [] s.d = "BeforeSave" -> BeforeSave(st, s.cls, s.hook)
      [] s.d = "Entity"    -> Entity(st, s.cls, s.options)

RECURSIVE DecorateAll(_, _)
DecorateAll(st, steps) ==
    IF steps = <<>> THEN st
    ELSE DecorateAll(Decorate(st, Head(steps)), Tail(steps))

EmptyStore == [c \in Classes |-> Absent]

\* every class above, defined in this order
Catalog ==
    FixtureUser \o FixturePost \o FixtureComment \o DocUserClass \o
    DocPostClass \o RoleClass \o MemberClass \o ProfileClass \o LogClass \o
    AccountClass \o EventClass \o CountryClass \o TeamClass \o SeatClass

\* the store once every class above has been defined: the decorators of a
\* class read and write the metadata of that class alone
LoadedStore ==
    [c \in Classes |->
        DecorateAll(EmptyStore, SelectSeq(Catalog, LAMBDA s : s.cls = c))[c]]

(***************************************************************************)
(* BaseRepository: the per-repository caches built by the constructor      *)
(***************************************************************************)
NoColumn ==
    [propertyKey |-> UNDEF, columnName |-> UNDEF, type |-> UNDEF,
     hidden |-> UNDEF, primary |-> UNDEF, softDelete |-> UNDEF]

\* a column map keyed by column name
columnMapGetByColumnName(metadata, key) ==
    LET hits == {i \in 1..Len(metadata.columns) :
                    metadata.columns[i].columnName = key}
    IN  IF hits = {} THEN NoColumn
        ELSE metadata.columns[CHOOSE i \in hits : \A j \in hits : j <= i]

\* this._columnMap.get(key): the map is keyed by propertyKey
columnMapGet(metadata, key) ==
    LET hits == {i \in 1..Len(metadata.columns) :
                    metadata.columns[i].propertyKey = key}
    IN  IF hits = {} THEN NoColumn
        ELSE metadata.columns[CHOOSE i \in hits : \A j \in hits : j <= i]

\* this._columnMap.keys().toArray()
columnMapKeys(metadata) ==
    [i \in 1..Len(metadata.columns) |-> metadata.columns[i].propertyKey]

NoRelation ==
    NoRelationFields @@ [type |-> UNDEF, propertyKey |-> UNDEF, target |-> UNDEF]

\* this._relationMap.get(name)
relationMapGet(metadata, name) ==
    LET hits == {i \in 1..Len(metadata.relations) :
                    metadata.relations[i].propertyKey = name}
    IN  IF hits = {} THEN NoRelation
        ELSE metadata.relations[CHOOSE i \in hits : \A j \in hits : j <= i]

\* this._primaryKey = metadata.columns.find(c => c.primary)
primaryKeyOf(metadata) ==
    LET hits == {i \in 1..Len(metadata.columns) :
                    Truthy(metadata.columns[i].primary)}
    IN  IF hits = {} THEN NoColumn
        ELSE metadata.columns[CHOOSE i \in hits : \A j \in hits : i <= j]

(***************************************************************************)
(* Errors.  kind "" is no error; DbError is an error of the connection.    *)
(***************************************************************************)
NoError == [kind |-> "", arg |-> "", entity |-> ""]

ColumnNotFoundError(columnName, entityName) ==
    [kind |-> "ColumnNotFound", arg |-> columnName, entity |-> entityName]

UnsupportedQueryOperatorError(operator) ==
    [kind |-> "UnsupportedQueryOperator", arg |-> operator, entity |-> ""]

EntityMetadataNotFoundError(entityName) ==
    [kind |-> "EntityMetadataNotFound", arg |-> "", entity |-> entityName]

SoftDeleteNotSupportedError(entityName) ==
    [kind |-> "SoftDeleteNotSupported", arg |-> "", entity |-> entityName]

DbError == [kind |-> "DbError", arg |-> "", entity |-> ""]

TypeError == [kind |-> "TypeError", arg |-> "", entity |-> ""]

IsValidationError(e) == e.kind \in {"ColumnNotFound", "UnsupportedQueryOperator"}

(***************************************************************************)
(* Clause renderer.  A clause is its sequence of SQL tokens; a parameter   *)
(* is the sequence of its elements (one element unless it is an array).    *)
(***************************************************************************)
supportedQueryOperators ==
    {"$eq", "$ne", "$gt", "$gte", "$lt", "$lte", "$in", "$like", "$between",
     "$notBetween", "$isNull", "$exists", "$notExists"}

NoOperator == [operator |-> UNDEF, hasPlaceholders |-> FALSE, valuePlaceholders |-> <<>>]

operatorQueryMap(op) ==
    LET one(o) == [operator |-> o, hasPlaceholders |-> TRUE, valuePlaceholders |-> <<"?">>]
        list(o) == [operator |-> o, hasPlaceholders |-> TRUE, valuePlaceholders |-> <<"(?)">>]
        two(o) == [operator |-> o, hasPlaceholders |-> TRUE,
                   valuePlaceholders |-> <<"?", "AND", "?">>]
    IN  CASE op = "$eq" -> one("=")
          [] op = "$ne" -> one("<>")
          [] op = "$gt" -> one(">")
          [] op = "$gte" -> one(">=")
          [] op = "$lt" -> one("<")
          [] op = "$lte" -> one("<=")
          [] op = "$in" -> list("IN")
          [] op = "$like" -> one("LIKE")
          [] op = "$between" -> two("BETWEEN")
          [] op = "$notBetween" -> two("NOT BETWEEN")
          [] op = "$isNull" ->
                [operator |-> "IS NULL", hasPlaceholders |-> FALSE,
                 valuePlaceholders |-> <<>>]
          [] op = "$exists" -> list("EXISTS")
          [] op = "$notExists" -> list("NOT EXISTS")
          [] OTHER -> NoOperator

\* a where entry {key: value}: kind is "scalar", "null", "date", "array" or
\* "ops" (an operator object, ops its [op, vals] entries in order)
Scalar(k, v) == [k |-> k, kind |-> "scalar", vals |-> <<v>>, ops |-> <<>>]

Ops(k, ops) == [k |-> k, kind |-> "ops", vals |-> <<>>, ops |-> ops]

Op(op, vals) == [op |-> op, vals |-> vals]

\* typeof value === 'object' && !Array.isArray(value) && value !== null
\*     ? value : { $eq: value };  then Object.keys of it
operatorOrValue(entry) ==
    CASE entry.kind = "ops"  -> entry.ops
      [] entry.kind = "date" -> <<>>
      [] OTHER -> <<Op("$eq", entry.vals)>>

Rendered(err, clauses, values) == [err |-> err, clauses |-> clauses, values |-> values]

\* the forEach over the operator keys of one where entry
RECURSIVE renderOperators(_, _, _)
renderOperators(column, ops, acc) ==
    IF ops = <<>> \/ acc.err.kind # "" THEN acc
    ELSE LET operatorKey == Head(ops).op
             whereValue == Head(ops).vals
             q == operatorQueryMap(operatorKey)
         IN  IF q.operator = UNDEF
             THEN Rendered(UnsupportedQueryOperatorError(operatorKey),
                           acc.clauses, acc.values)
             ELSE renderOperators(column, Tail(ops),
                    Rendered(NoError,
                        Append(acc.clauses,
                               <<"??", q.operator>> \o q.valuePlaceholders),
                        acc.values \o <<(<<column.columnName>>)>> \o
                        (IF q.hasPlaceholders
                         THEN IF Len(q.valuePlaceholders) > 1
                              THEN [i \in 1..Len(whereValue) |-> <<whereValue[i]>>]
                              ELSE <<whereValue>>
                         ELSE <<>>)))

\* the for loop over Object.entries(where)
RECURSIVE renderEntries(_, _, _, _)
renderEntries(metadata, cls, where, acc) ==
    IF where = <<>> \/ acc.err.kind # "" THEN acc
    ELSE LET column == columnMapGet(metadata, Head(where).k)
         IN  IF column.propertyKey = UNDEF
             THEN Rendered(ColumnNotFoundError(Head(where).k, ClassName(cls)),
                           acc.clauses, acc.values)
             ELSE renderEntries(metadata, cls, Tail(where),
                    renderOperators(column, operatorOrValue(Head(where)), acc))

\* a where clause that never gets the implicit filter
softDeleteFilterNever(metadata, withDeleted) == FALSE

\* the guard of the implicit soft-delete filter
softDeleteFilter(metadata, withDeleted) ==
    ~withDeleted /\ Truthy(metadata.softDelete) /\ Truthy(metadata.softDeleteColumn)

renderWhereClauses(metadata, cls, where, withDeleted) ==
    LET r == renderEntries(metadata, cls, where, Rendered(NoError, <<>>, <<>>))
    IN  IF r.err.kind # "" THEN r
        ELSE IF softDeleteFilter(metadata, withDeleted)
             THEN Rendered(NoError,
                      Append(r.clauses, <<"??", "IS NULL">>),
                      Append(r.values, <<metadata.softDeleteColumn>>))
             ELSE r

\* renderWhereClaude(whereClauses, prefix)
renderWhereClaude(whereClauses, prefix) ==
    IF Len(whereClauses) > 0
    THEN <<prefix>> \o
         Flatten([i \in 1..Len(whereClauses) |->
                    IF i = 1 THEN whereClauses[i] ELSE <<"AND">> \o whereClauses[i]])
    ELSE <<>>

RECURSIVE selectFields(_, _, _, _)
selectFields(metadata, cls, select, acc) ==
    IF select = <<>> \/ acc.err.kind # "" THEN acc
    ELSE LET column == columnMapGet(metadata, Head(select))
         IN  IF column.propertyKey = UNDEF
             THEN [acc EXCEPT !.err = ColumnNotFoundError(Head(select), ClassName(cls))]
             ELSE selectFields(metadata, cls, Tail(select),
                      [acc EXCEPT !.columns = Append(@, column.columnName)])

\* renderSelectColumns(whereValues, select): the ?? list and the values with
\* the columns and the table name unshifted
renderSelectColumns(metadata, cls, whereValues, select) ==
    LET r == IF Len(select) > 0
             THEN selectFields(metadata, cls, select, [err |-> NoError, columns |-> <<>>])
             ELSE [err |-> NoError, columns |-> columnMapKeys(metadata)]
    IN  [err |-> r.err,
         sql |-> Flatten([i \in 1..Len(r.columns) |->
                            IF i = 1 THEN <<"??">> ELSE <<",", "??">>]),
         values |-> [i \in 1..Len(r.columns) |-> <<r.columns[i]>>] \o
                    <<(<<metadata.tableName>>)>> \o whereValues]

\* direction.toUpperCase()
toUpperCase(direction) ==
    CASE direction \in {"asc", "ASC", "Asc"} -> "ASC"
      [] direction \in {"desc", "DESC", "Desc"} -> "DESC"
      [] direction = "sideways" -> "SIDEWAYS"
      [] OTHER -> direction

\* orderBy: form "none" (undefined), "list" (['a', 'b']) or "map" ({a: 'DESC'});
\* fields the [k, v] entries, v the direction of the map form
NoOrderBy == [form |-> "none", fields |-> <<>>]

RECURSIVE orderFields(_, _, _, _, _)
orderFields(metadata, cls, form, fields, acc) ==
    IF fields = <<>> \/ acc.err.kind # "" THEN acc
    ELSE LET field == Head(fields).k
             direction == Head(fields).v
             column == columnMapGet(metadata, field)
         IN  IF form = "map" /\ ~Truthy(direction)
             THEN orderFields(metadata, cls, form, Tail(fields), acc)
             ELSE IF column.propertyKey = UNDEF
             THEN Rendered(ColumnNotFoundError(field, ClassName(cls)),
                           acc.clauses, acc.values)
             ELSE orderFields(metadata, cls, form, Tail(fields),
                    Rendered(NoError,
                        Append(acc.clauses,
                               <<"??", IF form = "list" THEN "ASC"
                                       ELSE toUpperCase(direction)>>),
                        Append(acc.values, <<column.columnName>>)))

renderOrderByClause(metadata, cls, orderBy) ==
    LET r == IF orderBy.form = "none" THEN Rendered(NoError, <<>>, <<>>)
             ELSE orderFields(metadata, cls, orderBy.form, orderBy.fields,
                              Rendered(NoError, <<>>, <<>>))
    IN  [err |-> r.err,
         sql |-> IF Len(r.clauses) > 0
                 THEN <<"ORDER BY">> \o
                      Flatten([i \in 1..Len(r.clauses) |->
                                 IF i = 1 THEN r.clauses[i]
                                 ELSE <<",">> \o r.clauses[i]])
                 ELSE <<>>,
         clauses |-> r.clauses,
         values |-> r.values]

(***************************************************************************)
(* The connection: a MySQL table store executing a statement with its      *)
(* positional parameters (?? an identifier, ? a value, (?) a value list),  *)
(* as connection.query(sql, params) of mysql2 does.                        *)
(***************************************************************************)
Instants == {"t0", "t1", "t2"}

DateOfInstant(t) == "Date(" \o t \o ")"

Dates == {DateOfInstant(t) : t \in Instants}

\* a stored DATETIME(3) with a fraction of a second, and the second it is in
SubSeconds == {"t1.5"}

FullSecond(t) == IF t = "t1.5" THEN "t1" ELSE t

InstantOfDate(d) == CHOOSE t \in Instants : DateOfInstant(t) = d

\* the order of the values the comparisons and ORDER BY use
ValueOrder ==
    << "0", "1", "2", "3", "4", "5", "Alice", "Bob", "Charlie", "David",
       "t0", "t1", "t2" >>

Ord(v) ==
    IF \E i \in 1..Len(ValueOrder) : ValueOrder[i] = v
    THEN CHOOSE i \in 1..Len(ValueOrder) : ValueOrder[i] = v
    ELSE 0

Num(v) == Ord(v) - 1

Str(n) == ValueOrder[n + 1]

\* a JavaScript value as the driver writes it into the statement
ToSql(v) ==
    CASE v = UNDEF   -> NULL
      [] v \in Dates -> InstantOfDate(v)
      [] v = "true"  -> "1"
      [] v = "false" -> "0"
      [] OTHER       -> v

TableColumns ==
    [test_users    |-> <<"id", "name", "email", "created_at", "deleted_at">>,
     test_posts    |-> <<"id", "title", "user_id">>,
     test_comments |-> <<"id", "content", "post_id">>,
     users         |-> <<"id", "name", "email", "created_at", "deleted_at">>,
     posts         |-> <<"id", "title", "content", "user_id">>,
     roles         |-> <<"id", "name">>,
     user_roles    |-> <<"user_id", "role_id">>,
     members       |-> <<"id", "name", "deleted_at">>,
     profiles      |-> <<"id", "member_id">>,
     logs          |-> <<"message", "member_id">>,
     log_roles     |-> <<"log_id", "role_id">>,
     items         |-> <<"id", "name", "deleted_at">>,
     accounts      |-> <<"id", "name">>,
     countries     |-> <<"code", "name">>,
     teams         |-> <<"id", "name", "owner_id", "lead_id">>,
     team_members  |-> <<"team_id", "member_id">>,
     seats         |-> <<"id", "team_id", "deleted_at">>]

TableNames == DOMAIN TableColumns

TimestampColumns == {"created_at", "deleted_at"}

\* columns declared NOT NULL without a default
RequiredColumns ==
    [t \in TableNames |->
        CASE t = "test_users"    -> {"name", "email"}
          [] t = "test_posts"    -> {"title"}
          [] t = "test_comments" -> {"content"}
          [] OTHER -> {}]

HasAutoIncrement(t) == "id" \in Range(TableColumns[t])

\* ON DELETE CASCADE foreign keys: child table, child column, parent table
ForeignKeys ==
    { <<"test_posts", "user_id", "test_users">>,
      <<"test_comments", "post_id", "test_posts">> }

Arity(tokens) ==
    Cardinality({i \in 1..Len(tokens) : tokens[i] \in {"??", "?", "(?)"}})

RECURSIVE SumArity(_, _)
\* the placeholders of the first n clauses
SumArity(clauses, n) ==
    IF n = 0 THEN 0 ELSE SumArity(clauses, n - 1) + Arity(clauses[n])

Statement(verb, select, set, where, order, limit, offset) ==
    [verb |-> verb, select |-> select, set |-> set, where |-> where,
     order |-> order, limit |-> limit, offset |-> offset]

Placeholders(sql) ==
    Arity(sql.select) + (IF sql.verb = "SELECTJOIN" THEN 15 ELSE 1) +
    SumArity(sql.set, Len(sql.set)) + SumArity(sql.where, Len(sql.where)) +
    SumArity(sql.order, Len(sql.order)) + Arity(sql.limit) + Arity(sql.offset)

IsIdent(p) == Len(p) = 1

IsColumnOf(t, p) == IsIdent(p) /\ p[1] \in Range(TableColumns[t])

SqlLess(a, b) == a # NULL /\ b # NULL /\ Ord(a) < Ord(b)

SqlEq(a, b) == a # NULL /\ b # NULL /\ a = b

LikeMatch(v, pattern) ==
    CASE pattern = "A%" -> v \in {"Alice"}
      [] pattern = "%" -> v # NULL
      [] OTHER -> SqlEq(v, pattern)

\* one where clause: its tokens and the parameters it consumes
ClauseOk(t, clause, args) ==
    /\ Len(args) = Arity(clause)
    /\ IsColumnOf(t, args[1])
    /\ clause[2] \notin {"EXISTS", "NOT EXISTS"}
    /\ clause[2] = "IN" => Len(args[2]) > 0
    /\ clause[2] \in {"=", "<>", ">", ">=", "<", "<=", "LIKE"} => Len(args[2]) = 1
    /\ clause[2] \in {"BETWEEN", "NOT BETWEEN"} => Len(args[2]) = 1 /\ Len(args[3]) = 1

ClauseHolds(row, clause, args) ==
    LET v == row[args[1][1]]
        a == ToSql(args[2][1])
        operator == clause[2]
    IN  CASE operator = "="  -> SqlEq(v, a)
          [] operator = "<>" -> v # NULL /\ a # NULL /\ v # a
          [] operator = ">"  -> SqlLess(a, v)
          [] operator = ">=" -> SqlLess(a, v) \/ SqlEq(a, v)
          [] operator = "<"  -> SqlLess(v, a)
          [] operator = "<=" -> SqlLess(v, a) \/ SqlEq(a, v)
          [] operator = "LIKE" -> LikeMatch(v, a)
          [] operator = "IN" -> \E i \in 1..Len(args[2]) : SqlEq(v, ToSql(args[2][i]))
          [] operator = "BETWEEN" ->
                /\ SqlLess(a, v) \/ SqlEq(a, v)
                /\ SqlLess(v, ToSql(args[3][1])) \/ SqlEq(v, ToSql(args[3][1]))
          [] operator = "NOT BETWEEN" ->
                /\ v # NULL /\ a # NULL /\ ToSql(args[3][1]) # NULL
                /\ SqlLess(v, a) \/ SqlLess(ToSql(args[3][1]), v)
          [] operator = "IS NULL" -> v = NULL
          [] OTHER -> FALSE

\* the parameters of clause i, the clauses starting at parameter from + 1
ClauseArgs(clauses, params, from, i) ==
    SubSeq(params, from + SumArity(clauses, i - 1) + 1,
                   from + SumArity(clauses, i))

WhereOk(t, clauses, params, from) ==
    \A i \in 1..Len(clauses) :
        ClauseOk(t, clauses[i], ClauseArgs(clauses, params, from, i))

WhereHolds(row, clauses, params, from) ==
    \A i \in 1..Len(clauses) :
        ClauseHolds(row, clauses[i], ClauseArgs(clauses, params, from, i))

\* ORDER BY: NULL sorts first ascending
KeyLess(a, b, dir) ==
    LET lt(x, y) == (x = NULL /\ y # NULL) \/ SqlLess(x, y)
    IN  IF dir = "ASC" THEN lt(a, b) ELSE lt(b, a)

RECURSIVE RowBefore(_, _, _)
\* keys: the [col, dir] of the ORDER BY, most significant first
RowBefore(a, b, keys) ==
    IF keys = <<>> THEN FALSE
    ELSE \/ KeyLess(a[Head(keys).col], b[Head(keys).col], Head(keys).dir)
         \/ /\ a[Head(keys).col] = b[Head(keys).col]
            /\ RowBefore(a, b, Tail(keys))

RECURSIVE InsertSorted(_, _, _)
InsertSorted(sorted, row, keys) ==
    IF sorted = <<>> THEN <<row>>
    ELSE IF RowBefore(row, Head(sorted), keys)
         THEN <<row>> \o sorted
         ELSE <<Head(sorted)>> \o InsertSorted(Tail(sorted), row, keys)

RECURSIVE SortRows(_, _)
\* a stable sort: equal rows keep the table's order
SortRows(rows, keys) ==
    IF rows = <<>> THEN <<>>
    ELSE InsertSorted(SortRows(SubSeq(rows, 1, Len(rows) - 1), keys),
                      rows[Len(rows)], keys)

Skip(rows, n) == IF n >= Len(rows) THEN <<>> ELSE SubSeq(rows, n + 1, Len(rows))

Take(rows, n) == IF n >= Len(rows) THEN rows ELSE SubSeq(rows, 1, n)

\* a stored value as the driver hands it to JavaScript
FromSql(col, v) ==
    IF v # NULL /\ col \in TimestampColumns THEN DateOfInstant(v) ELSE v

Project(row, cols) == [c \in cols |-> FromSql(c, row[c])]

QueryResult(err, rows, affectedRows, insertId, tables) ==
    [err |-> err, rows |-> rows, affectedRows |-> affectedRows,
     insertId |-> insertId, db |-> tables]

Failed(tables) == QueryResult(DbError, <<>>, 0, "0", tables)

ExecSelect(tables, sql, params) ==
    LET n == Arity(sql.select)
        t == params[n + 1][1]
        nw == SumArity(sql.where, Len(sql.where))
        no == Len(sql.order)
        lim == sql.limit
        off == sql.offset
        limitAt == n + 1 + nw + no + 1
        ok == /\ n > 0
              /\ IsIdent(params[n + 1]) /\ t \in TableNames
              /\ \A i \in 1..n : IsColumnOf(t, params[i])
              /\ WhereOk(t, sql.where, params, n + 1)
              /\ \A j \in 1..no :
                    /\ IsColumnOf(t, params[n + 1 + nw + j])
                    /\ sql.order[j][2] \in {"ASC", "DESC"}
              /\ off # <<>> => lim # <<>>
              /\ Arity(lim) = 1 => Len(params[limitAt]) = 1
              /\ Arity(off) = 1 => Len(params[limitAt + Arity(lim)]) = 1
    IN  IF ~ok THEN Failed(tables)
        ELSE LET matched == Filter(tables[t],
                                LAMBDA row : WhereHolds(row, sql.where, params, n + 1))
                 keys == [j \in 1..no |->
                            [col |-> params[n + 1 + nw + j][1], dir |-> sql.order[j][2]]]
                 sorted == SortRows(matched, keys)
                 skipped == IF off = <<>> THEN sorted
                            ELSE Skip(sorted, Num(params[limitAt + Arity(lim)][1]))
                 taken == IF lim = <<>> THEN skipped
                          ELSE IF Arity(lim) = 0 THEN Take(skipped, Num(lim[2]))
                          ELSE Take(skipped, Num(params[limitAt][1]))
                 cols == {params[i][1] : i \in 1..n}
             IN  QueryResult(NoError, [i \in 1..Len(taken) |-> Project(taken[i], cols)],
                             0, "0", tables)

ExecUpdate(tables, sql, params) ==
    LET t == params[1][1]
        ns == Len(sql.set)
        ok == /\ IsIdent(params[1]) /\ t \in TableNames
              /\ ns > 0
              /\ \A i \in 1..ns :
                    /\ IsColumnOf(t, params[2 * i])
                    /\ Len(params[2 * i + 1]) = 1
                    /\ ToSql(params[2 * i + 1][1]) = NULL =>
                           params[2 * i][1] \notin RequiredColumns[t]
              /\ WhereOk(t, sql.where, params, 1 + 2 * ns)
    IN  IF ~ok THEN Failed(tables)
        ELSE LET hit(row) == WhereHolds(row, sql.where, params, 1 + 2 * ns)
                 \* assignments apply left to right: the last one of a column wins
                 newValue(row, c) ==
                    LET setters == {i \in 1..ns : params[2 * i][1] = c}
                    IN  IF setters = {} THEN row[c]
                        ELSE ToSql(params[2 * (CHOOSE i \in setters :
                                        \A j \in setters : j <= i) + 1][1])
                 updated == [i \in 1..Len(tables[t]) |->
                               IF hit(tables[t][i])
                               THEN [c \in DOMAIN tables[t][i] |-> newValue(tables[t][i], c)]
                               ELSE tables[t][i]]
             IN  QueryResult(NoError, <<>>,
                             Len(Filter(tables[t], hit)), "0",
                             [tables EXCEPT ![t] = updated])

\* rows of child tables whose parent row is gone
Cascade(tables) ==
    [t \in DOMAIN tables |->
        Filter(tables[t],
            LAMBDA row :
                \A fk \in ForeignKeys :
                    (fk[1] = t /\ row[fk[2]] # NULL) =>
                        \E i \in 1..Len(tables[fk[3]]) :
                            tables[fk[3]][i].id = row[fk[2]])]

ExecDelete(tables, sql, params) ==
    LET t == params[1][1]
        ok == /\ IsIdent(params[1]) /\ t \in TableNames
              /\ WhereOk(t, sql.where, params, 1)
    IN  IF ~ok THEN Failed(tables)
        ELSE LET hit(row) == WhereHolds(row, sql.where, params, 1)
                 kept == Filter(tables[t], LAMBDA row : ~hit(row))
             IN  QueryResult(NoError, <<>>, Len(Filter(tables[t], hit)), "0",
                             Cascade(Cascade([tables EXCEPT ![t] = kept])))

NextId(rows) ==
    LET used == {Num(rows[i].id) : i \in 1..Len(rows)}
    IN  Str(IF used = {} THEN 1
            ELSE (CHOOSE n \in used : \A m \in used : m <= n) + 1)

\* INSERT INTO ?? (??, ...) VALUES (?, ...): select holds the column list
ExecInsert(tables, sql, params) ==
    LET t == params[1][1]
        n == Arity(sql.select)
        given == {params[1 + i][1] : i \in 1..n}
        valueOf(c) ==
            LET at == {i \in 1..n : params[1 + i][1] = c}
            IN  IF at = {} THEN UNDEF ELSE ToSql(params[1 + n + (CHOOSE i \in at : TRUE)][1])
        ok == /\ IsIdent(params[1]) /\ t \in TableNames
              /\ \A i \in 1..n : IsColumnOf(t, params[1 + i]) /\ Len(params[1 + n + i]) = 1
              /\ \A i, j \in 1..n : params[1 + i] = params[1 + j] => i = j
              /\ \A c \in RequiredColumns[t] : valueOf(c) \notin {UNDEF, NULL}
              /\ HasAutoIncrement(t) /\ valueOf("id") \notin {UNDEF, NULL} =>
                    \A i \in 1..Len(tables[t]) : tables[t][i].id # valueOf("id")
    IN  IF ~ok THEN Failed(tables)
        ELSE LET auto == HasAutoIncrement(t) /\ valueOf("id") \in {UNDEF, NULL, "0"}
                 id == IF auto THEN NextId(tables[t]) ELSE valueOf("id")
                 row == [c \in Range(TableColumns[t]) |->
                           CASE c = "id" /\ HasAutoIncrement(t) -> id
                             [] c = "created_at" /\ valueOf(c) = UNDEF -> "t0"
                             [] valueOf(c) = UNDEF -> NULL
                             [] OTHER -> valueOf(c)]
             IN  QueryResult(NoError, <<>>, 1,
                             IF HasAutoIncrement(t) THEN id ELSE "0",
                             [tables EXCEPT ![t] = SortRows(Append(@, row),
                                 IF HasAutoIncrement(t)
                                 THEN <<[col |-> "id", dir |-> "ASC"]>> ELSE <<>>)])

\* connection.query(sql, params): a placeholder left without a parameter is a
\* syntax error; surplus parameters are ignored
Exec(tables, sql, params) ==
    IF Len(params) < Placeholders(sql) THEN Failed(tables)
    ELSE CASE sql.verb = "SELECT" -> ExecSelect(tables, sql, params)
           [] sql.verb = "UPDATE" -> ExecUpdate(tables, sql, params)
           [] sql.verb = "DELETE" -> ExecDelete(tables, sql, params)
           [] sql.verb = "INSERT" -> ExecInsert(tables, sql, params)
           [] OTHER -> Failed(tables)

(***************************************************************************)
(* Row mapper.  An entity is [cls, props, rels]: props the own properties  *)
(* in assignment order, rels the relation properties the loaders attached  *)
(* (kind "array", "single" or "null"; items the related entities).         *)
(***************************************************************************)
NewEntity(cls) == [cls |-> cls, props |-> <<>>, rels |-> <<>>]

\* the value undefined where an entity is expected
UndefinedEntity == [cls |-> UNDEF, props |-> <<>>, rels |-> <<>>]

IsNumeric(v) == v \in {"0", "1", "2", "3", "4", "5"}

JsonValues == {"{\"a\":1}", "[]", "\"x\""}

\* JSON.parse of a string: its value, or "SyntaxError"
JsonParse(v) ==
    CASE v = "{\"a\":1}" -> "object{a:1}"
      [] v = "[]"        -> "array[]"
      [] v = "\"x\""     -> "x"
      [] IsNumeric(v)    -> v
      [] v \in {"true", "false", NULL} -> v
      [] OTHER           -> "SyntaxError"

JsonStringify(v) ==
    CASE v = "object{a:1}" -> "{\"a\":1}"
      [] v = "array[]"     -> "[]"
      [] IsNumeric(v) \/ v \in {"true", "false", NULL} -> v
      [] v \in Dates       -> "\"" \o InstantOfDate(v) \o ".000Z\""
      [] OTHER             -> "\"" \o v \o "\""

\* the switch of mapToEntity on column.type
coerceToEntity(type, value) ==
    CASE type = "number"  -> IF IsNumeric(value) THEN value
                             ELSE IF value \in {"true"} THEN "1"
                             ELSE IF value \in {"false", ""} THEN "0"
                             ELSE "NaN"
      [] type = "boolean" -> IF Truthy(value) THEN "true" ELSE "false"
      [] type = "date"    -> IF value \in Dates THEN value
                             ELSE IF value \in Instants \cup SubSeconds
                             THEN DateOfInstant(value)
                             ELSE "Invalid Date"
      [] type = "json"    -> IF JsonParse(value) = "SyntaxError" THEN value
                             ELSE JsonParse(value)
      [] OTHER            -> value

\* what a registered hook method does when called on an entity: the fixture's
\* calculatePostCount sets postCount when posts is loaded and returns nothing
CallHook(hook, entity) ==
    CASE hook = "calculatePostCount" -> UndefinedEntity
      [] OTHER -> entity

applyAfterLoadHook(entity, hooks) ==
    IF Truthy(hooks.afterLoad) THEN CallHook(hooks.afterLoad, entity) ELSE entity

RECURSIVE mapColumns(_, _, _)
mapColumns(columns, row, entity) ==
    IF columns = <<>> THEN entity
    ELSE LET column == Head(columns)
             value == IF column.columnName \in DOMAIN row
                      THEN row[column.columnName] ELSE UNDEF
             mapped == IF value # NULL /\ value # UNDEF
                       THEN coerceToEntity(column.type, value) ELSE value
         IN  mapColumns(Tail(columns), row,
                [entity EXCEPT !.props = Put(@, column.propertyKey, mapped)])

mapToEntity(metadata, cls, row) ==
    applyAfterLoadHook(mapColumns(metadata.columns, row, NewEntity(cls)),
                       metadata.transformHooks)

\* the switch of mapToDB on column.type
coerceToDB(type, value) ==
    CASE type = "date"    -> IF value \in Dates THEN InstantOfDate(value)
                             ELSE IF \E t \in SubSeconds : value = DateOfInstant(t)
                             THEN FullSecond(CHOOSE t \in SubSeconds : value = DateOfInstant(t))
                             ELSE "TypeError"
      [] type = "json"    -> JsonStringify(value)
      [] type = "boolean" -> IF Truthy(value) THEN "1" ELSE "0"
      [] OTHER            -> value

RECURSIVE mapEntries(_, _, _)
\* the loop of mapToDB over Object.entries(transformed)
mapEntries(metadata, entries, dbObject) ==
    IF entries = <<>> THEN dbObject
    ELSE LET column == columnMapGet(metadata, Head(entries).k)
             value == Head(entries).v
         IN  IF column.propertyKey = UNDEF
             THEN mapEntries(metadata, Tail(entries), dbObject)
             ELSE mapEntries(metadata, Tail(entries),
                    Put(dbObject, column.columnName,
                        IF value # NULL /\ value # UNDEF
                        THEN coerceToDB(column.type, value) ELSE value))

\* a partial entity, or undefined
Partial(entries) == [undefined |-> FALSE, entries |-> entries]

\* undefined handed back by a method that changed its partial in place
UndefinedPartial(entries) == [undefined |-> TRUE, entries |-> entries]

\* what a registered beforeSave method does when called on a partial: stampName
\* sets this.name and returns nothing
CallSaveHook(hook, entries) ==
    CASE hook = "stampName" -> UndefinedPartial(Put(entries, "name", "stamped"))
      [] OTHER -> Partial(entries)

applyBeforeSaveHook(entries, hooks) ==
    IF Truthy(hooks.beforeSave) THEN CallSaveHook(hooks.beforeSave, entries)
    ELSE Partial(entries)

\* mapToDB(entity): the column-keyed object; "TypeError" marks a throw
\* (Object.entries of undefined throws)
mapToDB(metadata, entries) ==
    With(applyBeforeSaveHook(entries, metadata.transformHooks), LAMBDA transformed :
        IF transformed.undefined THEN <<[k |-> "", v |-> "TypeError"]>>
        ELSE mapEntries(metadata, transformed.entries, <<>>))

mapToDBThrows(dbObject) == \E i \in 1..Len(dbObject) : dbObject[i].v = "TypeError"

(***************************************************************************)
(* find and findOne without the relation step                              *)
(***************************************************************************)
Query(sql, params) == [sql |-> sql, params |-> params]

\* options: select, orderBy, limit, offset (UNDEF when absent), withDeleted,
\* relations
NoOptions ==
    [select |-> <<>>, orderBy |-> NoOrderBy, limit |-> UNDEF, offset |-> UNDEF,
     withDeleted |-> FALSE, relations |-> <<>>]

\* x >= 0 in JavaScript (undefined >= 0 is false, null >= 0 is true)
GteZero(x) == IsNumeric(x) \/ x = NULL

Found(err, entities, queries) ==
    [err |-> err, entities |-> entities, queries |-> queries]

\* the statement of find/findOne and its parameters, or the error of rendering
renderFind(metadata, cls, where, options, limitTokens, offsetTokens, tailValues) ==
    With(renderWhereClauses(metadata, cls, where, options.withDeleted),
      LAMBDA w :
        With(renderSelectColumns(metadata, cls, w.values, options.select),
          LAMBDA s :
            With(renderOrderByClause(metadata, cls, options.orderBy),
              LAMBDA o :
                [err |-> IF w.err.kind # "" THEN w.err
                         ELSE IF s.err.kind # "" THEN s.err ELSE o.err,
                 query |-> Query(Statement("SELECT", s.sql, <<>>, w.clauses,
                                           o.clauses, limitTokens, offsetTokens),
                                 s.values \o o.values \o tailValues)])))

\* a find that dispatches its statement before it reports what the renderer
\* rejected
findRowsThenReject(tables, metadata, cls, where, options) ==
    With(renderFind(metadata, cls, where, options, <<>>, <<>>, <<>>),
      LAMBDA r :
        With(Exec(tables, r.query.sql, r.query.params),
          LAMBDA res :
            IF r.err.kind # "" THEN Found(r.err, <<>>, <<r.query>>)
            ELSE IF res.err.kind # "" THEN Found(res.err, <<>>, <<r.query>>)
            ELSE Found(NoError,
                       [i \in 1..Len(res.rows) |->
                           mapToEntity(metadata, cls, res.rows[i])],
                       <<r.query>>)))

\* find up to "return entities", options.relations left to the caller
findRows(tables, metadata, cls, where, options) ==
    LET limit  == IF GteZero(options.limit) THEN <<"LIMIT", "?">> ELSE <<>>
        offset == IF GteZero(options.offset) THEN <<"OFFSET", "?">> ELSE <<>>
    IN  With(renderFind(metadata, cls, where, options, limit, offset,
                 (IF limit # <<>> THEN <<(<<options.limit>>)>> ELSE <<>>) \o
                 (IF offset # <<>> THEN <<(<<options.offset>>)>> ELSE <<>>)),
          LAMBDA r :
            IF r.err.kind # "" THEN Found(r.err, <<>>, <<>>)
            ELSE With(Exec(tables, r.query.sql, r.query.params),
              LAMBDA res :
                IF res.err.kind # "" THEN Found(res.err, <<>>, <<r.query>>)
                ELSE Found(NoError,
                           [i \in 1..Len(res.rows) |->
                               mapToEntity(metadata, cls, res.rows[i])],
                           <<r.query>>)))

\* findOne up to the mapped entity: LIMIT 1 is part of the statement text
findOneRow(tables, metadata, cls, where, options) ==
    With(renderFind(metadata, cls, where, options, <<"LIMIT", "1">>, <<>>, <<>>),
      LAMBDA r :
        IF r.err.kind # "" THEN Found(r.err, <<>>, <<>>)
        ELSE With(Exec(tables, r.query.sql, r.query.params),
          LAMBDA res :
            IF res.err.kind # "" THEN Found(res.err, <<>>, <<r.query>>)
            ELSE Found(NoError,
                       IF Len(res.rows) > 0
                       THEN <<mapToEntity(metadata, cls, res.rows[1])>> ELSE <<>>,
                       <<r.query>>)))

(***************************************************************************)
(* update, delete, restore, create.  What a call returns is [kind, num,    *)
(* entity, entities]: kind "number", "entity", "null", "list" or "thrown". *)
(***************************************************************************)
Ret(kind, num, entity, entities) ==
    [kind |-> kind, num |-> num, entity |-> entity, entities |-> entities]

Thrown == Ret("thrown", "0", UndefinedEntity, <<>>)

Done(err, ret, queries, tables) ==
    [err |-> err, ret |-> ret, queries |-> queries, db |-> tables]

Throw(err, queries, tables) == Done(err, Thrown, queries, tables)

\* a property value used as a where value: a Date is an object without keys
WhereOfValue(k, v) ==
    IF v \in Dates THEN [k |-> k, kind |-> "date", vals |-> <<v>>, ops |-> <<>>]
    ELSE Scalar(k, v)

\* Object.entries(instance): the own properties, then the attached relations
EntriesOfEntity(entity) ==
    entity.props \o [i \in 1..Len(entity.rels) |-> [k |-> entity.rels[i].k, v |-> "[object]"]]

WhereOfEntity(entity) ==
    LET entries == EntriesOfEntity(entity)
    IN  [i \in 1..Len(entries) |-> WhereOfValue(entries[i].k, entries[i].v)]

\* where = { [pk.propertyKey]: instance[pk.propertyKey] }
WhereOfPrimaryKey(pk, instance) ==
    <<WhereOfValue(pk.propertyKey, Get(instance.props, pk.propertyKey))>>

\* an argument of update/delete/restore: a where clause or a live instance
ByWhere(where) == [isInstance |-> FALSE, where |-> where, entity |-> UndefinedEntity]

ByInstance(entity) == [isInstance |-> TRUE, where |-> <<>>, entity |-> entity]

\* update(where, updates, options); hasUpdates is FALSE when updates is omitted
update(tables, metadata, cls, arg, hasUpdates, updates, withDeleted) ==
    LET pk == primaryKeyOf(metadata)
        rekey == arg.isInstance /\ pk.propertyKey # UNDEF
        given == hasUpdates \/ rekey
        upd == IF rekey /\ ~hasUpdates THEN EntriesOfEntity(arg.entity) ELSE updates
        where == IF rekey THEN WhereOfPrimaryKey(pk, arg.entity)
                 ELSE IF arg.isInstance THEN WhereOfEntity(arg.entity)
                 ELSE arg.where
        affected(result) == Ret("number", Str(result.affectedRows), UndefinedEntity, <<>>)
    IN  IF ~given THEN Throw(TypeError, <<>>, tables)
        ELSE With(mapToDB(metadata, upd), LAMBDA updateDbObject :
        IF mapToDBThrows(updateDbObject) THEN Throw(TypeError, <<>>, tables)
        ELSE With(renderWhereClauses(metadata, cls, where, withDeleted), LAMBDA w :
        IF w.err.kind # "" THEN Throw(w.err, <<>>, tables)
        ELSE With(Query(Statement("UPDATE", <<>>,
                            [i \in 1..Len(updateDbObject) |-> <<"??", "=", "?">>],
                            w.clauses, <<>>, <<>>, <<>>),
                        <<(<<metadata.tableName>>)>> \o
                        Flatten([i \in 1..Len(updateDbObject) |->
                                    << <<updateDbObject[i].k>>,
                                       <<updateDbObject[i].v>> >>]) \o
                        w.values), LAMBDA q :
        With(Exec(tables, q.sql, q.params), LAMBDA result :
        IF result.err.kind # "" THEN Throw(result.err, <<q>>, tables)
        ELSE IF result.affectedRows = 1 /\ arg.isInstance
        THEN With(findOneRow(result.db, metadata, cls, where,
                             [NoOptions EXCEPT !.withDeleted = withDeleted]), LAMBDA f :
             IF f.err.kind # "" THEN Throw(f.err, <<q>> \o f.queries, result.db)
             ELSE IF f.entities # <<>> /\ f.entities[1].cls # UNDEF
             THEN Done(NoError,
                       Ret("entity", "0",
                           [arg.entity EXCEPT !.props = Assign(@, f.entities[1].props)],
                           <<>>),
                       <<q>> \o f.queries, result.db)
             ELSE Done(NoError, affected(result), <<q>> \o f.queries, result.db))
        ELSE Done(NoError, affected(result), <<q>>, result.db)))))

\* the guard of delete: soft delete when the metadata says so
deleteIsSoft(metadata) == Truthy(metadata.softDelete)

\* delete(where); now is the instant new Date() reads
delete(tables, metadata, cls, arg, now) ==
    IF deleteIsSoft(metadata)
    THEN update(tables, metadata, cls, arg, TRUE,
                <<[k |-> metadata.softDeleteColumn, v |-> DateOfInstant(now)]>>, TRUE)
    ELSE LET pk == primaryKeyOf(metadata)
             where == IF arg.isInstance
                      THEN IF pk.propertyKey # UNDEF
                           THEN WhereOfPrimaryKey(pk, arg.entity)
                           ELSE WhereOfEntity(arg.entity)
                      ELSE arg.where
         IN  With(renderWhereClauses(metadata, cls, where, FALSE), LAMBDA w :
             IF w.err.kind # "" THEN Throw(w.err, <<>>, tables)
             ELSE With(Query(Statement("DELETE", <<>>, <<>>, w.clauses, <<>>, <<>>, <<>>),
                             <<(<<metadata.tableName>>)>> \o w.values), LAMBDA q :
             With(Exec(tables, q.sql, q.params), LAMBDA result :
             IF result.err.kind # "" THEN Throw(result.err, <<q>>, tables)
             ELSE Done(NoError,
                       Ret("number", Str(result.affectedRows), UndefinedEntity, <<>>),
                       <<q>>, result.db))))

\* a restore that does not look at the soft-delete configuration
restoreAlwaysAccepted(metadata) == TRUE

\* the guard of restore
restoreAccepted(metadata) == Truthy(metadata.softDelete)

restore(tables, metadata, cls, arg) ==
    IF ~restoreAccepted(metadata)
    THEN Throw(SoftDeleteNotSupportedError(ClassName(cls)), <<>>, tables)
    ELSE update(tables, metadata, cls, arg, TRUE,
                <<[k |-> metadata.softDeleteColumn, v |-> NULL]>>, TRUE)

findByPrimaryValue(tables, metadata, cls, primaryValue) ==
    LET pk == primaryKeyOf(metadata)
    IN  IF pk.propertyKey = UNDEF THEN Found(NoError, <<>>, <<>>)
        ELSE findOneRow(tables, metadata, cls,
                        <<Scalar(pk.propertyKey, primaryValue)>>, NoOptions)

\* create(entity): entity the entries of a plain object or of an instance
create(tables, metadata, cls, isInstance, entity) ==
    With(mapToDB(metadata, entity), LAMBDA dbObject :
    IF mapToDBThrows(dbObject) THEN Throw(TypeError, <<>>, tables)
    ELSE With(Query(Statement("INSERT",
                        Flatten([i \in 1..Len(dbObject) |->
                                    IF i = 1 THEN <<"??">> ELSE <<",", "??">>]),
                        [i \in 1..Len(dbObject) |-> <<"?">>], <<>>, <<>>, <<>>, <<>>),
                    <<(<<metadata.tableName>>)>> \o
                    [i \in 1..Len(dbObject) |-> <<dbObject[i].k>>] \o
                    [i \in 1..Len(dbObject) |-> <<dbObject[i].v>>]), LAMBDA q :
    With(Exec(tables, q.sql, q.params), LAMBDA result :
    IF result.err.kind # "" THEN Throw(result.err, <<q>>, tables)
    ELSE With(findByPrimaryValue(result.db, metadata, cls, result.insertId),
              LAMBDA newValue :
    IF newValue.err.kind # ""
    THEN Throw(newValue.err, <<q>> \o newValue.queries, result.db)
    ELSE IF newValue.entities # <<>> /\ newValue.entities[1].cls # UNDEF
    THEN Done(NoError,
              Ret("entity", "0",
                  IF isInstance
                  THEN [NewEntity(cls) EXCEPT
                          !.props = Assign(entity, newValue.entities[1].props)]
                  ELSE newValue.entities[1], <<>>),
              <<q>> \o newValue.queries, result.db)
    ELSE Done(NoError, Ret("number", result.insertId, UndefinedEntity, <<>>),
              <<q>> \o newValue.queries, result.db)))))

(***************************************************************************)
(* The join query of loadManyToMany on the connection                      *)
(***************************************************************************)
sourceEntityIdAlias == "_orm_source_fk_"

\* SELECT DISTINCT t.*, jt.joinColumn AS alias FROM target t JOIN joinTable jt
\* ON jt.inverseJoinColumn = t.pk WHERE jt.joinColumn IN (ids) [AND ...] [LIMIT ?]
ExecJoin(tables, sql, params) ==
    LET t == params[5][1]
        jt == params[7][1]
        joinColumn == params[3][1]
        inverseColumn == params[10][1]
        pkColumn == params[12][1]
        ids == params[15]
        nw == SumArity(sql.where, Len(sql.where))
        \* an unqualified column of the AND clauses must belong to exactly one table
        unambiguous == \A i \in 1..Len(sql.where) :
                          ClauseArgs(sql.where, params, 15, i)[1][1]
                              \notin Range(TableColumns[jt])
        ok == /\ \A i \in 1..14 : IsIdent(params[i])
              /\ t \in TableNames /\ jt \in TableNames
              /\ {joinColumn, inverseColumn, params[14][1]} \subseteq Range(TableColumns[jt])
              /\ pkColumn \in Range(TableColumns[t])
              /\ Len(ids) > 0
              /\ WhereOk(t, sql.where, params, 15) /\ unambiguous
              /\ Arity(sql.limit) = 1 => Len(params[15 + nw + 1]) = 1
    IN  IF ~ok THEN Failed(tables)
        ELSE LET pairs == Flatten([i \in 1..Len(tables[t]) |->
                             Flatten([j \in 1..Len(tables[jt]) |->
                                 IF /\ SqlEq(tables[jt][j][inverseColumn], tables[t][i][pkColumn])
                                    /\ \E k \in 1..Len(ids) :
                                          SqlEq(tables[jt][j][joinColumn], ToSql(ids[k]))
                                    /\ WhereHolds(tables[t][i], sql.where, params, 15)
                                 THEN <<Project(tables[t][i], Range(TableColumns[t])) @@
                                        [c \in {sourceEntityIdAlias} |-> tables[jt][j][joinColumn]]>>
                                 ELSE <<>>])])
                 distinct == Filter([i \in 1..Len(pairs) |-> [i |-> i, row |-> pairs[i]]],
                                LAMBDA p : \A j \in 1..(p.i - 1) : pairs[j] # p.row)
                 rows == [i \in 1..Len(distinct) |-> distinct[i].row]
             IN  QueryResult(NoError,
                             IF sql.limit = <<>> THEN rows
                             ELSE Take(rows, Num(params[15 + nw + 1][1])),
                             0, "0", tables)

\* connection.query for every statement the repository renders
Run(tables, sql, params) ==
    IF sql.verb = "SELECTJOIN"
    THEN IF Len(params) < Placeholders(sql) THEN Failed(tables)
         ELSE ExecJoin(tables, sql, params)
    ELSE Exec(tables, sql, params)

(***************************************************************************)
(* Relation resolver.  A relation spec is [form, path, entries]: form      *)
(* "path" with path the names of 'a.b.c', or form "map" with entries the   *)
(* [k, v] pairs of { name: config }.  A loader returns [err, entities,     *)
(* queries]: the parents with the relation attached.                       *)
(***************************************************************************)
Loaded(err, entities, queries) == [err |-> err, entities |-> entities, queries |-> queries]

PathSpec(path) == [form |-> "path", path |-> path, entries |-> <<>>]

MapSpec(entries) == [form |-> "map", path |-> <<>>, entries |-> entries]

\* a RelationConfig; defined is FALSE for undefined / null
NoConfig ==
    [defined |-> FALSE, hasWhere |-> FALSE, where |-> <<>>, hasRelations |-> FALSE,
     relations |-> <<>>, select |-> <<>>, orderBy |-> NoOrderBy, limit |-> UNDEF,
     offset |-> UNDEF]

Config == [NoConfig EXCEPT !.defined = TRUE]

RelValue(kind, items) == [kind |-> kind, items |-> items]

\* entity[propertyKey] = value for a relation property
SetRel(entity, propertyKey, value) ==
    [entity EXCEPT !.rels = Put(@, propertyKey, value)]

AnyUndefined(entities) == \E i \in 1..Len(entities) : entities[i].cls = UNDEF

\* Object.assign / spread of where objects: a later key replaces the earlier one
RECURSIVE WhereAssign(_, _)
WhereAssign(target, source) ==
    IF source = <<>> THEN target
    ELSE LET e == Head(source)
             merged == IF \E i \in 1..Len(target) : target[i].k = e.k
                       THEN [i \in 1..Len(target) |->
                               IF target[i].k = e.k THEN e ELSE target[i]]
                       ELSE Append(target, e)
         IN  WhereAssign(merged, Tail(source))

\* ids.filter((id, index, self) => id && self.indexOf(id) === index)
TruthyUnique(ids) ==
    Filter([i \in 1..Len(ids) |-> [i |-> i, id |-> ids[i]]],
           LAMBDA p : Truthy(p.id) /\ \A j \in 1..(p.i - 1) : ids[j] # p.id)

buildFindOptions(options) ==
    [NoOptions EXCEPT
        !.limit = IF Truthy(options.limit) THEN options.limit ELSE UNDEF,
        !.offset = IF Truthy(options.offset) THEN options.offset ELSE UNDEF,
        !.orderBy = options.orderBy,
        !.select = options.select]

\* the last element of related whose property key equals id: Map.set overwrites
LastWith(related, key, id) ==
    LET hits == {j \in 1..Len(related) : Get(related[j].props, key) = id}
    IN  IF hits = {} THEN <<>>
        ELSE <<related[CHOOSE j \in hits : \A h \in hits : h <= j]>>

AllWith(related, key, id) ==
    Filter(related, LAMBDA e : Get(e.props, key) = id)

\* TargetClass.name.toLowerCase()
toLowerCase(name) ==
    CASE name = "User" -> "user"
      [] name = "Post" -> "post"
      [] name = "Comment" -> "comment"
      [] name = "Role" -> "role"
      [] name = "Member" -> "member"
      [] name = "Profile" -> "profile"
      [] name = "Log" -> "log"
      [] name = "Item" -> "item"
      [] OTHER -> name

loadOneToOne(tables, st, cls, entities, relation, options) ==
    LET metadata == getEntityMetadata(st, cls)
        target == getEntityMetadata(st, relation.target)
        localKey == OrElse(relation.localKey,
                        OrElse(primaryKeyOf(target).propertyKey, target.tableName \o "_id"))
        foreignKey == OrElse(relation.foreignKey,
                        OrElse(primaryKeyOf(metadata).propertyKey, metadata.tableName \o "_id"))
        ids == [i \in 1..Len(entities) |-> Get(entities[i].props, foreignKey)]
        whereClause == WhereAssign(<<Ops(localKey, <<Op("$in", ids)>>)>>, relation.where)
    IN  IF AnyUndefined(entities) THEN Loaded(TypeError, entities, <<>>)
        ELSE With(findRows(tables, target, relation.target, whereClause,
                           buildFindOptions(options)), LAMBDA r :
        IF r.err.kind # "" THEN Loaded(r.err, entities, r.queries)
        ELSE IF AnyUndefined(r.entities) THEN Loaded(TypeError, entities, r.queries)
        ELSE Loaded(NoError,
                [i \in 1..Len(entities) |->
                    With(LastWith(r.entities, localKey, ids[i]), LAMBDA hit :
                        SetRel(entities[i], relation.propertyKey,
                               IF hit = <<>> THEN RelValue("null", <<>>)
                               ELSE RelValue("single", hit)))],
                r.queries))

loadOneToMany(tables, st, cls, entities, relation, options) ==
    LET metadata == getEntityMetadata(st, cls)
        pk == primaryKeyOf(metadata)
        target == getEntityMetadata(st, relation.target)
        inverseRelation == relationMapGet(target, relation.inverseSide)
        foreignKey == OrElse(inverseRelation.foreignKey, metadata.tableName \o "_id")
        ids == [i \in 1..Len(entities) |-> Get(entities[i].props, pk.propertyKey)]
        whereClause == WhereAssign(<<Ops(foreignKey, <<Op("$in", ids)>>)>>, relation.where)
    IN  IF pk.propertyKey = UNDEF THEN Loaded(NoError, entities, <<>>)
        ELSE IF inverseRelation.propertyKey = UNDEF THEN Loaded(NoError, entities, <<>>)
        ELSE IF AnyUndefined(entities) THEN Loaded(TypeError, entities, <<>>)
        ELSE With(findRows(tables, target, relation.target, whereClause,
                           buildFindOptions(options)), LAMBDA r :
        IF r.err.kind # "" THEN Loaded(r.err, entities, r.queries)
        ELSE IF AnyUndefined(r.entities) THEN Loaded(TypeError, entities, r.queries)
        ELSE Loaded(NoError,
                [i \in 1..Len(entities) |->
                    SetRel(entities[i], relation.propertyKey,
                           RelValue("array", AllWith(r.entities, foreignKey, ids[i])))],
                r.queries))

loadManyToOne(tables, st, cls, entities, relation, options) ==
    LET target == getEntityMetadata(st, relation.target)
        tpk == primaryKeyOf(target)
        foreignKey == OrElse(relation.foreignKey,
                        toLowerCase(ClassName(relation.target)) \o "_id")
        fks == [i \in 1..Len(entities) |-> Get(entities[i].props, foreignKey)]
        ids == With(TruthyUnique(fks), LAMBDA picked :
                    [i \in 1..Len(picked) |-> picked[i].id])
        whereClause == WhereAssign(<<Ops(tpk.propertyKey, <<Op("$in", ids)>>)>>,
                                   relation.where)
    IN  IF tpk.propertyKey = UNDEF THEN Loaded(NoError, entities, <<>>)
        ELSE IF AnyUndefined(entities) THEN Loaded(TypeError, entities, <<>>)
        ELSE With(findRows(tables, target, relation.target, whereClause,
                           buildFindOptions(options)), LAMBDA r :
        IF r.err.kind # "" THEN Loaded(r.err, entities, r.queries)
        ELSE IF AnyUndefined(r.entities) THEN Loaded(TypeError, entities, r.queries)
        ELSE Loaded(NoError,
                [i \in 1..Len(entities) |->
                    With(LastWith(r.entities, tpk.propertyKey, fks[i]), LAMBDA hit :
                        SetRel(entities[i], relation.propertyKey,
                               IF hit = <<>> THEN RelValue("null", <<>>)
                               ELSE RelValue("single", hit)))],
                r.queries))

loadManyToMany(tables, st, cls, entities, relation, options) ==
    LET metadata == getEntityMetadata(st, cls)
        pk == primaryKeyOf(metadata)
        target == getEntityMetadata(st, relation.target)
        tpk == primaryKeyOf(target)
        ids == [i \in 1..Len(entities) |-> Get(entities[i].props, pk.propertyKey)]
        limit == IF Truthy(options.limit) THEN <<"LIMIT", "?">> ELSE <<>>
        \* the rows of one parent, a target primary key at most once
        related(mapped, id) ==
            With(Filter(mapped, LAMBDA m : m.fk = id), LAMBDA mine :
                With(Filter([j \in 1..Len(mine) |-> [j |-> j, m |-> mine[j]]],
                         LAMBDA p : \A h \in 1..(p.j - 1) :
                             Get(mine[h].e.props, tpk.propertyKey) #
                             Get(p.m.e.props, tpk.propertyKey)),
                     LAMBDA kept : [j \in 1..Len(kept) |-> kept[j].m.e]))
        \* targetEntity[pk] is read only for a row whose parent already has one
        reads(mapped) ==
            \E i \in 1..Len(mapped) :
                /\ mapped[i].e.cls = UNDEF
                /\ \E j \in 1..Len(ids) : ids[j] = mapped[i].fk
                /\ \E h \in 1..(i - 1) : mapped[h].fk = mapped[i].fk
    IN  IF pk.propertyKey = UNDEF \/ tpk.propertyKey = UNDEF
        THEN Loaded(NoError, entities, <<>>)
        ELSE IF AnyUndefined(entities) THEN Loaded(TypeError, entities, <<>>)
        ELSE With(IF relation.hasWhere
                  THEN renderWhereClauses(target, relation.target, relation.where, FALSE)
                  ELSE Rendered(NoError, <<>>, <<>>), LAMBDA w :
        IF w.err.kind # "" THEN Loaded(w.err, entities, <<>>)
        ELSE With(Query(Statement("SELECTJOIN", <<>>, <<>>, w.clauses, <<>>, limit, <<>>),
                   << <<"t">>, <<"jt">>, <<relation.joinColumnName>>,
                      <<sourceEntityIdAlias>>, <<target.tableName>>, <<"t">>,
                      <<relation.joinTableName>>, <<"jt">>, <<"jt">>,
                      <<relation.inverseJoinColumnName>>, <<"t">>, <<tpk.columnName>>,
                      <<"jt">>, <<relation.joinColumnName>>, ids >> \o
                   w.values \o
                   (IF limit # <<>> THEN <<(<<options.limit>>)>> ELSE <<>>)), LAMBDA q :
        With(Run(tables, q.sql, q.params), LAMBDA res :
        IF res.err.kind # "" THEN Loaded(res.err, entities, <<q>>)
        ELSE With([i \in 1..Len(res.rows) |->
                     [fk |-> res.rows[i][sourceEntityIdAlias],
                      e |-> mapToEntity(target, relation.target, res.rows[i])]],
                  LAMBDA mapped :
        IF reads(mapped) THEN Loaded(TypeError, entities, <<q>>)
        ELSE Loaded(NoError,
                [i \in 1..Len(entities) |->
                    SetRel(entities[i], relation.propertyKey,
                           RelValue("array", related(mapped, ids[i])))],
                <<q>>)))))

loadRelationByType(tables, st, cls, entities, relation, options) ==
    CASE relation.type = "OneToOne" ->
            loadOneToOne(tables, st, cls, entities, relation, options)
      [] relation.type = "OneToMany" ->
            loadOneToMany(tables, st, cls, entities, relation, options)
      [] relation.type = "ManyToOne" ->
            loadManyToOne(tables, st, cls, entities, relation, options)
      [] relation.type = "ManyToMany" ->
            loadManyToMany(tables, st, cls, entities, relation, options)
      [] OTHER -> Loaded(NoError, entities, <<>>)

\* getRelatedEntities(entities, relationName, relationType)
getRelatedEntities(entities, relationName, relationType) ==
    Flatten([i \in 1..Len(entities) |->
        IF entities[i].cls # UNDEF /\ Has(entities[i].rels, relationName)
        THEN LET relatedValue == Get(entities[i].rels, relationName)
             IN  IF relationType \in {"OneToMany", "ManyToMany"}
                 THEN IF relatedValue.kind = "array" THEN relatedValue.items ELSE <<>>
                 ELSE IF relatedValue.kind = "null" THEN <<>> ELSE relatedValue.items
        ELSE <<>>])

\* the related entities are the objects the parents hold: what a nested loader
\* attached to them shows in the parents
Redistribute(entities, relationName, related) ==
    LET items(i) == IF Has(entities[i].rels, relationName)
                    THEN Get(entities[i].rels, relationName).items ELSE <<>>
        before(i) == Len(Flatten([j \in 1..(i - 1) |-> items(j)]))
    IN  [i \in 1..Len(entities) |->
            IF items(i) = <<>> THEN entities[i]
            ELSE [entities[i] EXCEPT !.rels =
                    Put(@, relationName,
                        [Get(entities[i].rels, relationName) EXCEPT
                            !.items = SubSeq(related, before(i) + 1,
                                             before(i) + Len(items(i)))])]]

RECURSIVE loadSimpleRelationPerParent(_, _, _, _, _)
\* a resolver that sends the loader's query once for every parent
loadSimpleRelationPerParent(tables, st, cls, entities, parts) ==
    LET relationName == parts[1]
        relation == relationMapGet(getEntityMetadata(st, cls), relationName)
    IN  IF relation.propertyKey = UNDEF THEN Loaded(NoError, entities, <<>>)
        ELSE With(loadRelationByType(tables, st, cls, entities, relation, NoConfig),
                  LAMBDA own :
        With(Loaded(own.err, own.entities,
                    Flatten([i \in 1..Len(entities) |-> own.queries])),
                  LAMBDA each :
        IF own.err.kind # "" \/ Len(parts) = 1 THEN each
        ELSE With(getRelatedEntities(own.entities, relationName, relation.type),
                  LAMBDA relatedEntities :
        IF Len(relatedEntities) = 0 THEN each
        ELSE With(loadSimpleRelationPerParent(tables, st, relation.target,
                                              relatedEntities, Tail(parts)),
                  LAMBDA nested :
        Loaded(nested.err,
               Redistribute(own.entities, relationName, nested.entities),
               each.queries \o nested.queries)))))

RECURSIVE loadSimpleRelation(_, _, _, _, _)
\* loadSimpleRelation(entities, relationPath), relationPath split at the dots
loadSimpleRelation(tables, st, cls, entities, parts) ==
    LET relationName == parts[1]
        relation == relationMapGet(getEntityMetadata(st, cls), relationName)
    IN  IF relation.propertyKey = UNDEF THEN Loaded(NoError, entities, <<>>)
        ELSE With(loadRelationByType(tables, st, cls, entities, relation, NoConfig),
                  LAMBDA own :
        IF own.err.kind # "" \/ Len(parts) = 1 THEN own
        ELSE With(getRelatedEntities(own.entities, relationName, relation.type),
                  LAMBDA relatedEntities :
        IF Len(relatedEntities) = 0 THEN own
        ELSE With(loadSimpleRelation(tables, st, relation.target, relatedEntities,
                                     Tail(parts)), LAMBDA nested :
        Loaded(nested.err,
               Redistribute(own.entities, relationName, nested.entities),
               own.queries \o nested.queries))))

RECURSIVE loadRelations(_, _, _, _, _)
RECURSIVE loadComplexRelation(_, _, _, _, _)
\* loadComplexRelation(entities, complexRelationMap): the loop over its entries
loadComplexRelation(tables, st, cls, entities, entries) ==
    IF entries = <<>> THEN Loaded(NoError, entities, <<>>)
    ELSE LET relationName == Head(entries).k
             relationOptions == Head(entries).v
             relation == relationMapGet(getEntityMetadata(st, cls), relationName)
             enhancedRelation ==
                IF relationOptions.hasWhere
                THEN [relation EXCEPT
                        !.hasWhere = TRUE,
                        !.where = WhereAssign(relation.where, relationOptions.where)]
                ELSE relation
             \* the nested relations of this entry, on what own attached
             withNested(own) ==
                IF own.err.kind # "" \/ ~relationOptions.hasRelations THEN own
                ELSE With(getRelatedEntities(own.entities, relationName, relation.type),
                          LAMBDA relatedEntities :
                     IF Len(relatedEntities) = 0 THEN own
                     ELSE With(loadRelations(tables, st, relation.target,
                                             relatedEntities, relationOptions.relations),
                               LAMBDA nested :
                          Loaded(nested.err,
                                 Redistribute(own.entities, relationName, nested.entities),
                                 own.queries \o nested.queries)))
         IN  IF relation.propertyKey = UNDEF \/ ~relationOptions.defined
             THEN loadComplexRelation(tables, st, cls, entities, Tail(entries))
             ELSE With(withNested(loadRelationByType(tables, st, cls, entities,
                                      enhancedRelation, relationOptions)), LAMBDA this :
                  IF this.err.kind # "" THEN this
                  ELSE With(loadComplexRelation(tables, st, cls, this.entities,
                                                Tail(entries)), LAMBDA rest :
                       Loaded(rest.err, rest.entities, this.queries \o rest.queries)))

\* loadRelations(entities, relations)
loadRelations(tables, st, cls, entities, relations) ==
    IF entities = <<>> \/ relations = <<>> THEN Loaded(NoError, entities, <<>>)
    ELSE With(IF Head(relations).form = "path"
              THEN loadSimpleRelation(tables, st, cls, entities, Head(relations).path)
              ELSE loadComplexRelation(tables, st, cls, entities,
                                       Head(relations).entries), LAMBDA this :
         IF this.err.kind # "" THEN this
         ELSE With(loadRelations(tables, st, cls, this.entities, Tail(relations)),
                   LAMBDA rest :
              Loaded(rest.err, rest.entities, this.queries \o rest.queries)))

(***************************************************************************)
(* find and findOne                                                        *)
(***************************************************************************)
find(tables, st, cls, where, options) ==
    With(findRows(tables, getEntityMetadata(st, cls), cls, where, options), LAMBDA rows :
    IF rows.err.kind # "" THEN rows
    ELSE With(loadRelations(tables, st, cls, rows.entities, options.relations),
              LAMBDA loaded :
         Found(loaded.err, loaded.entities, rows.queries \o loaded.queries)))

findOne(tables, st, cls, where, options) ==
    With(findOneRow(tables, getEntityMetadata(st, cls), cls, where, options), LAMBDA row :
    IF row.err.kind # "" THEN row
    ELSE With(loadRelations(tables, st, cls, row.entities, options.relations),
              LAMBDA loaded :
         Found(loaded.err, loaded.entities, row.queries \o loaded.queries)))

(***************************************************************************)
(* The tables after setupDatabase and seedDatabase of the test suite, and  *)
(* rows for the tables of the other classes.                               *)
(***************************************************************************)
UserRow(id, name, email, deleted_at) ==
    [id |-> id, name |-> name, email |-> email, created_at |-> "t0",
     deleted_at |-> deleted_at]

Seed ==
    [test_users    |-> << UserRow("1", "Alice", "alice@x", NULL),
                          UserRow("2", "Bob", "bob@x", NULL),
                          UserRow("3", "Charlie", "charlie@x", "t0") >>,
     test_posts    |-> << [id |-> "1", title |-> "P1", user_id |-> "1"],
                          [id |-> "2", title |-> "P2", user_id |-> "1"],
                          [id |-> "3", title |-> "P3", user_id |-> "2"] >>,
     test_comments |-> << [id |-> "1", content |-> "C1", post_id |-> "1"],
                          [id |-> "2", content |-> "C2", post_id |-> "1"],
                          [id |-> "3", content |-> "C3", post_id |-> "3"] >>,
     users         |-> << UserRow("1", "Alice", "alice@x", NULL),
                          UserRow("2", "Bob", "bob@x", NULL),
                          UserRow("3", "Carol", "carol@x", NULL) >>,
     posts         |-> << [id |-> "1", title |-> "P1", content |-> "x", user_id |-> "1"],
                          [id |-> "2", title |-> "P2", content |-> "x", user_id |-> "1"],
                          [id |-> "3", title |-> "P3", content |-> "x", user_id |-> "2"] >>,
     roles         |-> << [id |-> "1", name |-> "admin"],
                          [id |-> "2", name |-> "Bob"] >>,
     user_roles    |-> << [user_id |-> "1", role_id |-> "1"],
                          [user_id |-> "1", role_id |-> "2"],
                          [user_id |-> "2", role_id |-> "1"] >>,
     members       |-> << [id |-> "1", name |-> "Alice", deleted_at |-> NULL],
                          [id |-> "2", name |-> "Bob", deleted_at |-> NULL],
                          [id |-> "3", name |-> "Charlie", deleted_at |-> "t0"] >>,
     profiles      |-> << [id |-> "1", member_id |-> "1"],
                          [id |-> "2", member_id |-> "3"] >>,
     logs          |-> << [message |-> "m1", member_id |-> "1"],
                          [message |-> "m2", member_id |-> NULL] >>,
     log_roles     |-> << [log_id |-> "1", role_id |-> "1"] >>,
     items         |-> << [id |-> "1", name |-> "Alice", deleted_at |-> NULL],
                          [id |-> "2", name |-> "Bob", deleted_at |-> NULL] >>,
     accounts      |-> << [id |-> "1", name |-> "Alice"],
                          [id |-> "2", name |-> "Bob"] >>,
     countries     |-> << [code |-> "FR", name |-> "Alice"] >>,
     teams         |-> << [id |-> "1", name |-> "Alice", owner_id |-> "3", lead_id |-> "3"],
                          [id |-> "2", name |-> "Bob", owner_id |-> "1", lead_id |-> "1"] >>,
     team_members  |-> << [team_id |-> "1", member_id |-> "1"],
                          [team_id |-> "1", member_id |-> "3"],
                          [team_id |-> "2", member_id |-> "2"] >>,
     seats         |-> << [id |-> "1", team_id |-> "1", deleted_at |-> NULL],
                          [id |-> "2", team_id |-> "1", deleted_at |-> "t0"],
                          [id |-> "3", team_id |-> "2", deleted_at |-> NULL] >>]

(***************************************************************************)
(* The record of a repository call                                         *)
(***************************************************************************)
Call(op, cls, arg, options, updates, now, out, before) ==
    [op |-> op, cls |-> cls, arg |-> arg, options |-> options, updates |-> updates,
     now |-> now, err |-> out.err, ret |-> out.ret, queries |-> out.queries,
     before |-> before]

NoCall ==
    Call("none", "", ByWhere(<<>>), NoOptions, <<>>, "t0",
         Done(NoError, Thrown, <<>>, <<>>), <<>>)

\* no transaction() call has been made
NoTx ==
    [pc |-> "idle", runs |-> 0, checkouts |-> 0, releases |-> 0, begun |-> 0,
     commits |-> 0, rollbacks |-> 0, open |-> FALSE, calls |-> 0, base |-> <<>>,
     work |-> <<>>, unit |-> "", outcome |-> "", thrown |-> ""]

\* no call is being carried out statement by statement
NoFlight == [pc |-> "idle", sent |-> 0, inflight |-> {}, err |-> NoError]

IsMutation(call) == call.op \in {"create", "update", "delete", "restore"}

\* what find returned, as a call outcome
FindOut(tables, f) ==
    IF f.err.kind # "" THEN Throw(f.err, f.queries, tables)
    ELSE Done(NoError, Ret("list", "0", UndefinedEntity, f.entities), f.queries, tables)

\* what findOne returned: the entity, or null
FindOneOut(tables, f) ==
    IF f.err.kind # "" THEN Throw(f.err, f.queries, tables)
    ELSE IF f.entities = <<>>
    THEN Done(NoError, Ret("null", "0", UndefinedEntity, <<>>), f.queries, tables)
    ELSE Done(NoError, Ret("entity", "0", f.entities[1], <<>>), f.queries, tables)

\* the state after a call: the tables it left and the call on record
Step(op, arg, options, updates, now, out) ==
    /\ db' = out.db
    /\ last' = Call(op, repo, arg, options, updates, now, out, db)
    /\ prevMut' = IF last.op = "delete" THEN last
                  ELSE IF IsMutation(last) THEN NoCall ELSE prevMut
    /\ UNCHANGED <<decl, store, repo, tx, flight>>

(***************************************************************************)
(* Inputs of the calls                                                     *)
(***************************************************************************)
MaxRows == 4

RepoClasses == {"User", "Member", "Post", "Account", "Country", "Log"}

\* new Date() at the time of a delete
Now == {"t1"}

Wheres == { <<>>, <<Scalar("id", "2")>> }

\* a live instance carrying its primary key
InstanceOf(cls, id) == [NewEntity(cls) EXCEPT !.props = <<[k |-> "id", v |-> id]>>]

Args(cls) == {ByWhere(w) : w \in Wheres} \cup {ByInstance(InstanceOf(cls, "2"))}

Selects(cls) ==
    CASE cls = "User"   -> { <<>>, <<"id", "name", "deletedAt">> }
      [] cls = "Member" -> { <<>>, <<"id", "name", "deleted_at">> }
      [] cls = "Post"   -> { <<>>, <<"id", "title">> }
      [] cls = "Country" -> { <<>>, <<"code", "name">> }
      [] cls = "Log"    -> { <<>>, <<"message">> }
      [] OTHER          -> { <<>>, <<"id", "name">> }

Updates(cls) ==
    CASE cls = "Post" -> { <<[k |-> "title", v |-> "David"]>> }
      [] cls = "Log"  -> { <<[k |-> "message", v |-> "David"]>> }
      [] OTHER        -> { <<[k |-> "name", v |-> "David"]>> }

NewEntities(cls) ==
    CASE cls = "User" -> { <<[k |-> "name", v |-> "David"], [k |-> "email", v |-> "david@x"]>> }
      [] cls = "Post" -> { <<[k |-> "title", v |-> "P4"], [k |-> "userId", v |-> "1"]>> }
      [] cls = "Member" -> { <<[k |-> "name", v |-> "David"]>>,
                             <<[k |-> "name", v |-> "David"],
                               [k |-> "deleted_at", v |-> "Date(t1)"]>> }
      [] cls = "Country" -> { <<[k |-> "code", v |-> "DE"], [k |-> "name", v |-> "David"]>> }
      [] cls = "Log"  -> { <<[k |-> "message", v |-> "David"], [k |-> "member_id", v |-> "1"]>> }
      [] OTHER        -> { <<[k |-> "name", v |-> "David"]>> }

(***************************************************************************)
(* The repository calls on the repository of class repo                    *)
(***************************************************************************)
Find(where, options) ==
    Step("find", ByWhere(where), options, <<>>, "t0",
         FindOut(db, find(db, store, repo, where, options)))

FindOne(where, options) ==
    Step("findOne", ByWhere(where), options, <<>>, "t0",
         FindOneOut(db, findOne(db, store, repo, where, options)))

Create(isInstance, entity) ==
    /\ Len(db[getEntityMetadata(store, repo).tableName]) < MaxRows
    /\ Step("create",
            IF isInstance THEN ByInstance([NewEntity(repo) EXCEPT !.props = entity])
            ELSE ByWhere(<<>>),
            NoOptions, entity, "t0",
            create(db, getEntityMetadata(store, repo), repo, isInstance, entity))

Update(arg, updates, withDeleted) ==
    Step("update", arg, [NoOptions EXCEPT !.withDeleted = withDeleted], updates, "t0",
         update(db, getEntityMetadata(store, repo), repo, arg, TRUE, updates,
                withDeleted))

Delete(arg, now) ==
    Step("delete", arg, NoOptions, <<>>, now,
         delete(db, getEntityMetadata(store, repo), repo, arg, now))

Restore(arg) ==
    Step("restore", arg, NoOptions, <<>>, "t0",
         restore(db, getEntityMetadata(store, repo), repo, arg))

Init ==
    /\ decl = Catalog
    /\ store = LoadedStore
    /\ repo \in RepoClasses
    /\ db = Seed
    /\ last = NoCall
    /\ prevMut = NoCall
    /\ tx = NoTx
    /\ flight = NoFlight

Next ==
    \/ \E w \in Wheres, wd \in BOOLEAN, s \in Selects(repo) :
          Find(w, [NoOptions EXCEPT !.withDeleted = wd, !.select = s])
    \/ \E w \in Wheres, wd \in BOOLEAN, s \in Selects(repo) :
          FindOne(w, [NoOptions EXCEPT !.withDeleted = wd, !.select = s])
    \/ \E i \in BOOLEAN, e \in NewEntities(repo) : Create(i, e)
    \/ \E a \in Args(repo) \ {ByWhere(<<>>)}, u \in Updates(repo), wd \in BOOLEAN :
          Update(a, u, wd)
    \/ \E a \in Args(repo), t \in Now : Delete(a, t)
    \/ \E a \in Args(repo) : Restore(a)

Spec == Init /\ [][Next]_vars

(***************************************************************************)
(* Vocabulary of the properties                                            *)
(***************************************************************************)
SoftDeleteEnabled(cls) == Truthy(store[cls].softDelete)

RowsOf(tables, cls) == tables[store[cls].tableName]

SoftDeleted(cls, row) == row[store[cls].softDeleteColumn] # NULL

\* the rows an argument of equalities on registered properties, or a live
\* instance, selects
Selected(cls, arg, row) ==
    IF arg.isInstance THEN row.id = Get(arg.entity.props, "id")
    ELSE \A i \in 1..Len(arg.where) :
            row[columnMapGet(store[cls], arg.where[i].k).columnName] = arg.where[i].vals[1]

\* the entities a find or findOne call handed to its caller
Returned(call) ==
    CASE call.ret.kind = "list"   -> call.ret.entities
      [] call.ret.kind = "entity" -> <<call.ret.entity>>
      [] OTHER                    -> <<>>

ReturnsRow(call, row) ==
    \E i \in 1..Len(Returned(call)) :
        /\ Returned(call)[i].cls # UNDEF
        /\ Get(Returned(call)[i].props, "id") = row.id

IsRead(call) == call.op \in {"find", "findOne"}

\* the same read with withDeleted negated, on the same tables
Twin(call) ==
    LET options == [call.options EXCEPT !.withDeleted = ~@]
    IN  IF call.op = "find"
        THEN FindOut(db, find(db, store, call.cls, call.arg.where, options))
        ELSE FindOneOut(db, findOne(db, store, call.cls, call.arg.where, options))

\* C1 (first part): a read without withDeleted on a soft-delete entity hands out
\* no row whose soft-delete column is non-null
C1_NoSoftDeletedRow ==
    (IsRead(last) /\ SoftDeleteEnabled(last.cls) /\ ~last.options.withDeleted) =>
        \A i \in 1..Len(Returned(last)) :
            Returned(last)[i].cls # UNDEF =>
                \A j \in 1..Len(RowsOf(db, last.cls)) :
                    RowsOf(db, last.cls)[j].id = Get(Returned(last)[i].props, "id") =>
                        ~SoftDeleted(last.cls, RowsOf(db, last.cls)[j])

\* C1 (second part): with withDeleted: true find hands out every selected
\* soft-deleted row, and findOne one when it is the only selected row
C1_WithDeletedReturned ==
    (IsRead(last) /\ SoftDeleteEnabled(last.cls) /\ last.options.withDeleted) =>
        \A j \in 1..Len(RowsOf(db, last.cls)) :
            LET row == RowsOf(db, last.cls)[j]
                alone == \A h \in 1..Len(RowsOf(db, last.cls)) :
                            Selected(last.cls, last.arg, RowsOf(db, last.cls)[h]) => h = j
            IN  (/\ Selected(last.cls, last.arg, row)
                 /\ SoftDeleted(last.cls, row)
                 /\ last.op = "findOne" => alone) => ReturnsRow(last, row)

\* C1 (third part): without soft delete, withDeleted does not change the result
C1_NoEffectWithoutSoftDelete ==
    (IsRead(last) /\ ~SoftDeleteEnabled(last.cls)) =>
        /\ Twin(last).err = last.err
        /\ Twin(last).ret = last.ret

\* C1: soft-deleted rows are excluded from find and findOne unless
\* withDeleted: true is passed, in which case they are returned; withDeleted
\* has no effect on an entity without soft delete
C1_SoftDeletedRowsExcluded ==
    /\ C1_NoSoftDeletedRow
    /\ C1_WithDeletedReturned
    /\ C1_NoEffectWithoutSoftDelete

\* findOne on the argument of a call, as the caller would issue it next
FindOneAfter(call, withDeleted) ==
    FindOneOut(db, findOne(db, store, call.cls,
        IF call.arg.isInstance
        THEN <<Scalar("id", Get(call.arg.entity.props, "id"))>> ELSE call.arg.where,
        [NoOptions EXCEPT !.withDeleted = withDeleted]))

\* the value of the soft-delete property of an entity
SoftDeleteValue(cls, entity) ==
    LET hits == {i \in 1..Len(store[cls].columns) : Truthy(store[cls].columns[i].softDelete)}
    IN  IF hits = {} \/ entity.cls = UNDEF THEN UNDEF
        ELSE Get(entity.props, store[cls].columns[CHOOSE i \in hits : TRUE].propertyKey)

\* C2: delete on a soft-delete entity removes no row and stamps every selected
\* row; findOne then returns null without withDeleted, and with withDeleted
\* the row with a non-null soft-delete value
C2_DeleteIsSoft ==
    (last.op = "delete" /\ SoftDeleteEnabled(last.cls)) =>
        /\ last.err.kind = ""
        /\ Len(RowsOf(db, last.cls)) = Len(RowsOf(last.before, last.cls))
        /\ \A j \in 1..Len(RowsOf(db, last.cls)) :
              Selected(last.cls, last.arg, RowsOf(last.before, last.cls)[j]) =>
                  SoftDeleted(last.cls, RowsOf(db, last.cls)[j])
        /\ FindOneAfter(last, FALSE).ret.kind = "null"
        /\ FindOneAfter(last, TRUE).ret.kind = "entity"
        /\ SoftDeleteValue(last.cls, FindOneAfter(last, TRUE).ret.entity) \in Dates

\* C3: restore after delete of the same argument leaves every selected row
\* with a null soft-delete column and its other columns as before the delete,
\* and find without withDeleted returns it again
C3_RestoreUndoesDelete ==
    (/\ last.op = "restore" /\ prevMut.op = "delete"
     /\ SoftDeleteEnabled(last.cls) /\ prevMut.arg = last.arg) =>
        /\ prevMut.err.kind = "" /\ last.err.kind = ""
        /\ Len(RowsOf(db, last.cls)) = Len(RowsOf(prevMut.before, last.cls))
        /\ \A j \in 1..Len(RowsOf(db, last.cls)) :
              LET row == RowsOf(db, last.cls)[j]
                  old == RowsOf(prevMut.before, last.cls)[j]
              IN  Selected(last.cls, last.arg, old) =>
                    /\ ~SoftDeleted(last.cls, row)
                    /\ \A c \in DOMAIN row :
                          c # store[last.cls].softDeleteColumn => row[c] = old[c]
                    /\ ReturnsRow(
                          FindOut(db, find(db, store, last.cls,
                              IF last.arg.isInstance THEN <<>> ELSE last.arg.where,
                              NoOptions)), row)

\* C4: restore on an entity without soft delete throws SoftDeleteNotSupported
\* naming the entity, whatever the argument, sends no query and changes no row
C4_RestoreNotSupported ==
    (last.op = "restore" /\ ~SoftDeleteEnabled(last.cls)) =>
        /\ last.err = SoftDeleteNotSupportedError(ClassName(last.cls))
        /\ last.queries = <<>>
        /\ db = last.before

\* restore on Post was called with an empty where, a where clause and a live
\* instance (the last of which is on record) and threw
C4_Witness ==
    /\ last.op = "restore" /\ last.cls = "Post" /\ last.arg.isInstance
    /\ last.err.kind = "SoftDeleteNotSupported"
    /\ prevMut.op = "delete" /\ prevMut.err.kind = ""

(***************************************************************************)
(* Defining an entity class: the member decorators run in declaration      *)
(* order and the class decorator last, each against the metadata store.    *)
(* Once the class is defined a repository of it serves delete and restore. *)
(***************************************************************************)
MaxColumns == 3

ItemColumns ==
    { Col("Item", "id", PrimaryNumber),
      Col("Item", "name", NoColumnOptions),
      Col("Item", "deleted_at", [NoColumnOptions EXCEPT !.type = "date"]),
      Col("Item", "deleted_at",
          [NoColumnOptions EXCEPT !.type = "date", !.softDelete = "true"]) }

ItemEntityOptions ==
    { [tableName |-> "items", softDelete |-> s, softDeleteColumn |-> c] :
        s \in {UNDEF, "true", "false"}, c \in {UNDEF, "deleted_at"} }

ClassDefined(cls) == \E i \in 1..Len(decl) : decl[i].d = "Entity" /\ decl[i].cls = cls

Declared(cls, propertyKey) ==
    \E i \in 1..Len(decl) :
        decl[i].d = "Column" /\ decl[i].cls = cls /\ decl[i].propertyKey = propertyKey

\* one decorator of the class under definition runs
Define(step) ==
    /\ ~ClassDefined(step.cls)
    /\ decl' = Append(decl, step)
    /\ store' = Decorate(store, step)
    /\ UNCHANGED <<repo, db, last, prevMut, tx, flight>>

DecorateColumn(step) ==
    /\ Len(decl) < MaxColumns
    /\ ~Declared(step.cls, step.propertyKey)
    /\ Define(step)

DecorateEntity(options) == repo = "Item" /\ Define(Ent(repo, options))

\* the constructor of BaseRepository: the metadata lookup registers a shell on
\* a miss
BaseRepository(st, cls) ==
    LET metadata == getEntityMetadata(st, cls)
    IN  [err |-> IF ~metadata.present
                 THEN EntityMetadataNotFoundError(ClassName(cls)) ELSE NoError,
         store |-> saveEntityMetadata(st, cls, metadata)]

\* new BaseRepository(connection, repo), once the class exists and before the
\* calls on record: Plain is a class without any decorator
NewRepository ==
    /\ repo = "Item" => ClassDefined(repo)
    /\ last = NoCall
    /\ store' = BaseRepository(store, repo).store
    /\ last' = Call("new", repo, ByWhere(<<>>), NoOptions, <<>>, "t0",
                    Done(BaseRepository(store, repo).err, Thrown, <<>>, db), db)
    /\ UNCHANGED <<decl, repo, db, prevMut, tx, flight>>

MetaArgs == { ByWhere(<<>>), ByWhere(<<Scalar("id", "1")>>) }

InitMeta ==
    /\ decl = <<>>
    /\ store = EmptyStore
    /\ repo \in {"Item", "Plain"}
    /\ db = Seed
    /\ last = NoCall
    /\ prevMut = NoCall
    /\ tx = NoTx
    /\ flight = NoFlight

NextMeta ==
    \/ \E step \in ItemColumns : DecorateColumn(step)
    \/ \E options \in ItemEntityOptions : DecorateEntity(options)
    \/ \E a \in MetaArgs, t \in Now : ClassDefined(repo) /\ Delete(a, t)
    \/ \E a \in MetaArgs : ClassDefined(repo) /\ Restore(a)
    \/ NewRepository
    \/ \E a \in MetaArgs : last.op = "new" /\ last.err.kind = "" /\ Find(a.where, NoOptions)

SpecMeta == InitMeta /\ [][NextMeta]_vars

\* the options the class decorator of cls was given
EntityOptionsOf(cls) ==
    decl[CHOOSE i \in 1..Len(decl) : decl[i].d = "Entity" /\ decl[i].cls = cls].options

\* C5: @Entity({ softDelete: true }), with or without softDeleteColumn and
\* whether or not a @Column ran first, leaves softDelete = true and a
\* soft-delete column set; delete then removes no row and restore is accepted
C5_SoftDeleteOptionHonoured ==
    (ClassDefined(repo) /\ EntityOptionsOf(repo).softDelete = "true") =>
        /\ store[repo].softDelete = "true"
        /\ store[repo].softDeleteColumn # UNDEF
        /\ last.op = "delete" =>
              Len(RowsOf(db, repo)) = Len(RowsOf(last.before, repo))
        /\ last.op = "restore" => last.err.kind # "SoftDeleteNotSupported"

\* C5, the part the code keeps: metadata with softDelete = true names a column
C5_SoftDeleteHasColumn ==
    \A c \in Classes :
        (store[c].present /\ store[c].softDelete = "true") =>
            store[c].softDeleteColumn # UNDEF

(***************************************************************************)
(* Reads with every option and relation specifications, and mutations with *)
(* where clauses the renderer rejects.                                     *)
(***************************************************************************)
QueryClasses == {"User", "Post", "DocUser", "DocPost", "Member", "Log"}

Unknown == Scalar("nope", "1")

BadOperator == Ops("name", <<Op("$bad", <<"1">>)>>)

IsNull(value) == Ops("id", <<Op("$isNull", <<value>>)>>)

QueryWheres ==
    { <<>>, <<Scalar("id", "1")>>, <<Scalar("id", "3")>>, <<Scalar("id", "9")>>,
      <<Unknown>>, <<BadOperator>>, <<IsNull("true")>>, <<IsNull("false")>> }

ValidSelect(cls) ==
    CASE cls = "Post" -> <<"id", "title", "userId">>
      [] cls = "DocPost" -> <<"id", "title", "user_id">>
      [] cls = "Log" -> <<"message", "member_id">>
      [] OTHER -> <<"id", "name">>

QuerySelects(cls) == { <<>>, ValidSelect(cls), <<"nope">> }

OrderList(field) == [form |-> "list", fields |-> <<[k |-> field, v |-> UNDEF]>>]

OrderMap(field, direction) ==
    [form |-> "map", fields |-> <<[k |-> field, v |-> direction]>>]

QueryOrders(cls) ==
    { NoOrderBy, OrderMap(ValidSelect(cls)[1], "desc"), OrderList("nope"),
      OrderMap("nope", "asc"), OrderMap("nope", UNDEF) }

\* the relations of each class, and one relation of each relation's target
RelationNames(cls) ==
    CASE cls = "User"    -> {"posts"}
      [] cls = "Post"    -> {"user", "comments"}
      [] cls = "DocUser" -> {"posts", "roles"}
      [] cls = "DocPost" -> {"user"}
      [] cls = "Member"  -> {"profile", "logs"}
      [] cls = "Log"     -> {"member", "entries", "roles"}

DeepPaths(cls) ==
    CASE cls = "User"    -> { <<"posts", "comments">> }
      [] cls = "Post"    -> { <<"comments", "post">> }
      [] cls = "DocUser" -> { <<"posts", "user">> }
      [] cls = "DocPost" -> { <<"user", "posts">>, <<"user", "roles">> }
      [] cls = "Member"  -> { <<"logs", "member">> }
      [] cls = "Log"     -> { <<"member", "profile">> }

One(name, config) == MapSpec(<<[k |-> name, v |-> config]>>)

RelationConfigs ==
    { Config,
      [Config EXCEPT !.hasWhere = TRUE, !.where = <<Unknown>>],
      [Config EXCEPT !.hasWhere = TRUE, !.where = <<BadOperator>>],
      [Config EXCEPT !.select = <<"nope">>],
      [Config EXCEPT !.orderBy = OrderList("nope")] }

RelationSpecs(cls) ==
    { PathSpec(<<r>>) : r \in RelationNames(cls) \cup {"nope"} }
    \cup { One(r, c) : r \in RelationNames(cls), c \in RelationConfigs }
    \cup { One("nope", [Config EXCEPT !.hasWhere = TRUE, !.where = <<Unknown>>]) }
    \cup { PathSpec(p) : p \in DeepPaths(cls) }
    \cup { One(p[1], [Config EXCEPT
                        !.hasRelations = TRUE,
                        !.relations = <<One(p[2], c)>>]) :
             p \in DeepPaths(cls),
             c \in { [Config EXCEPT !.hasWhere = TRUE, !.where = <<Unknown>>],
                     [Config EXCEPT !.select = <<"nope">>] } }

\* the options of a read: the root options in every combination, and each
\* relation specification on a read whose select names columns
QueryOptions(cls) ==
    { [NoOptions EXCEPT !.select = s, !.orderBy = o, !.offset = f] :
        s \in QuerySelects(cls), o \in QueryOrders(cls), f \in {UNDEF, "1"} }
    \cup
    { [NoOptions EXCEPT !.select = ValidSelect(cls), !.relations = <<r>>] :
        r \in RelationSpecs(cls) }

QueryArgs(cls) ==
    { ByWhere(w) : w \in {<<Scalar("id", "9")>>, <<Unknown>>, <<BadOperator>>} }

InitQuery ==
    /\ decl = Catalog
    /\ store = LoadedStore
    /\ repo \in QueryClasses
    /\ db = Seed
    /\ last = NoCall
    /\ prevMut = NoCall
    /\ tx = NoTx
    /\ flight = NoFlight

\* No call of this specification changes a row (no mutation argument selects
\* one), so what a call does is independent of the calls before it: the
\* behaviours are one call each on the seeded tables.
NextQuery ==
    \/ \E w \in QueryWheres, o \in QueryOptions(repo) : last = NoCall /\ Find(w, o)
    \/ \E w \in QueryWheres, o \in QueryOptions(repo) : last = NoCall /\ FindOne(w, o)
    \/ \E a \in QueryArgs(repo), u \in Updates(repo) : last = NoCall /\ Update(a, u, FALSE)
    \/ \E a \in QueryArgs(repo), t \in Now : last = NoCall /\ Delete(a, t)
    \/ \E a \in QueryArgs(repo) : last = NoCall /\ Restore(a)

SpecQuery == InitQuery /\ [][NextQuery]_vars

(***************************************************************************)
(* Vocabulary of the properties of reads and of rejected calls             *)
(***************************************************************************)
Properties(cls) ==
    {store[cls].columns[i].propertyKey : i \in 1..Len(store[cls].columns)}

FieldsOfWhere(where) == {where[i].k : i \in 1..Len(where)}

FieldsOfOrder(orderBy) == {orderBy.fields[i].k : i \in 1..Len(orderBy.fields)}

\* the orderBy fields given with a direction (every field of the list form)
DirectedFields(orderBy) ==
    {orderBy.fields[i].k : i \in {j \in 1..Len(orderBy.fields) :
                                     orderBy.form = "list" \/ Truthy(orderBy.fields[j].v)}}

\* the where clause has an operator the renderer does not know, on a
\* registered property
HasBadOperator(cls, where) ==
    \E i \in 1..Len(where) :
        /\ where[i].k \in Properties(cls)
        /\ where[i].kind = "ops"
        /\ \E j \in 1..Len(where[i].ops) : where[i].ops[j].op \notin supportedQueryOperators

\* the field names of the root where, select and orderBy of a call that are
\* not registered properties of its entity
RootUnknown(call) ==
    (FieldsOfWhere(call.arg.where) \cup Range(call.options.select)
        \cup FieldsOfOrder(call.options.orderBy)) \ Properties(call.cls)

\* those of them the renderer looks up
RootLookedUp(call) ==
    (FieldsOfWhere(call.arg.where) \cup Range(call.options.select)
        \cup DirectedFields(call.options.orderBy)) \ Properties(call.cls)

\* the ColumnNotFound errors expected of one relation configuration
ConfigUnknown(target, config) ==
    { ColumnNotFoundError(f, ClassName(target)) :
        f \in (FieldsOfWhere(config.where) \cup Range(config.select)
                 \cup FieldsOfOrder(config.orderBy)) \ Properties(target) }

\* ... and of a relation specification, over its nesting
RECURSIVE SpecUnknown(_, _)
SpecUnknown(cls, spec) ==
    IF spec.form = "path" THEN {}
    ELSE UNION { LET relation == relationMapGet(store[cls], spec.entries[i].k)
                     config == spec.entries[i].v
                 IN  IF relation.propertyKey = UNDEF THEN {}
                     ELSE ConfigUnknown(relation.target, config) \cup
                          UNION { SpecUnknown(relation.target, config.relations[j]) :
                                    j \in 1..Len(config.relations) } :
                 i \in 1..Len(spec.entries) }

NestedUnknown(call) ==
    UNION { SpecUnknown(call.cls, call.options.relations[i]) :
              i \in 1..Len(call.options.relations) }

\* the classes a relation specification reaches from cls
RECURSIVE Targets(_, _)
Targets(cls, spec) ==
    IF spec.form = "path"
    THEN IF spec.path = <<>> THEN {}
         ELSE LET relation == relationMapGet(store[cls], spec.path[1])
              IN  IF relation.propertyKey = UNDEF THEN {}
                  ELSE {relation.target} \cup
                       Targets(relation.target, PathSpec(Tail(spec.path)))
    ELSE UNION { LET relation == relationMapGet(store[cls], spec.entries[i].k)
                     config == spec.entries[i].v
                 IN  IF relation.propertyKey = UNDEF THEN {}
                     ELSE {relation.target} \cup
                          UNION { Targets(relation.target, config.relations[j]) :
                                    j \in 1..Len(config.relations) } :
                 i \in 1..Len(spec.entries) }

TargetsOf(call) ==
    UNION { Targets(call.cls, call.options.relations[i]) :
              i \in 1..Len(call.options.relations) }

\* the calls that render the where clause given to them
RendersWhere(call) ==
    \/ call.op \in {"find", "findOne", "update", "delete"}
    \/ call.op = "restore" /\ SoftDeleteEnabled(call.cls)

RootRejected(call) ==
    RootLookedUp(call) # {} \/ HasBadOperator(call.cls, call.arg.where)

IsSelect(query) == query.sql.verb \in {"SELECT", "SELECTJOIN"}

\* C7: a call of find, findOne, update, delete or restore that ends in
\* ColumnNotFound or UnsupportedQueryOperator has dispatched no query
C7_ValidationBeforeAnyQuery ==
    (last.op # "none" /\ IsValidationError(last.err)) => last.queries = <<>>

\* C7 as the code has it: a call that ends in a validation error has changed
\* no row and dispatched nothing but SELECTs; it has dispatched no query at
\* all when it is an update, delete or restore, or a read whose root where,
\* select or orderBy is what the renderer rejects; a relation specification
\* is validated after the root query
C7_ValidationBeforeRootQuery ==
    (last.op # "none" /\ IsValidationError(last.err)) =>
        /\ db = last.before
        /\ \A i \in 1..Len(last.queries) : IsSelect(last.queries[i])
        /\ (~IsRead(last) \/ RootRejected(last)) => last.queries = <<>>
        /\ last.queries # <<>> => last.options.relations # <<>>

\* delete on the soft-delete fixture was given an operator the renderer does
\* not know and was rejected
C7_Witness ==
    /\ last.op = "delete" /\ last.cls = "User"
    /\ last.err.kind = "UnsupportedQueryOperator"
    /\ last.queries = <<>>

\* find with limit 1 and otherwise the options of a findOne call
FindLimitOne(call) ==
    FindOut(call.before,
            find(call.before, store, call.cls, call.arg.where,
                 [call.options EXCEPT !.limit = "1"]))

\* C8: find returns a list; findOne returns null exactly when find with
\* limit 1 and the same where, select, orderBy, offset and withDeleted returns
\* the empty list, and otherwise the single element of that list
C8_FindOneIsFindLimitOne ==
    /\ (last.op = "find" /\ last.err.kind = "") => last.ret.kind = "list"
    /\ last.op = "findOne" =>
          /\ last.err.kind = FindLimitOne(last).err.kind
          /\ last.err.kind = "" =>
                /\ last.ret.kind \in {"null", "entity"}
                /\ last.ret.kind = "null" <=> FindLimitOne(last).ret.entities = <<>>
                /\ last.ret.kind = "entity" =>
                      FindLimitOne(last).ret.entities = <<last.ret.entity>>

\* the OneToMany relations of the test fixture: the inverse ManyToOne names
\* the foreign key by its column
FixtureOneToMany ==
    { [cls |-> "User", relation |-> "posts", table |-> "test_posts", column |-> "user_id"],
      [cls |-> "Post", relation |-> "comments", table |-> "test_comments",
       column |-> "post_id"] }

\* the ids of the rows of a table whose column equals id, in table order
ChildIds(tables, table, column, id) ==
    LET hits == SelectSeq(tables[table], LAMBDA row : row[column] = id)
    IN  [i \in 1..Len(hits) |-> hits[i].id]

\* the parent has under the relation an array of exactly the given children
HasChildren(entity, relation, ids) ==
    /\ entity.cls # UNDEF
    /\ Has(entity.rels, relation)
    /\ Get(entity.rels, relation).kind = "array"
    /\ LET items == Get(entity.rels, relation).items
       IN  /\ Len(items) = Len(ids)
           /\ {Get(items[i].props, "id") : i \in 1..Len(items)} = Range(ids)

\* a read of cls with the one relation by name, on registered root fields
LoadsRelation(call, cls, relation) ==
    /\ IsRead(call) /\ call.cls = cls
    /\ call.options.relations = <<PathSpec(<<relation>>)>>
    /\ ~RootRejected(call)

\* C9: loading a OneToMany relation declared as in the test fixture attaches
\* to each parent exactly the target rows whose foreign-key column equals the
\* parent's primary key
C9_OneToManyAttachesChildren ==
    \A f \in FixtureOneToMany :
        LoadsRelation(last, f.cls, f.relation) =>
            /\ last.err.kind = ""
            /\ \A i \in 1..Len(Returned(last)) :
                  /\ Returned(last)[i].cls # UNDEF
                  /\ HasChildren(Returned(last)[i], f.relation,
                        ChildIds(last.before, f.table, f.column,
                                 Get(Returned(last)[i].props, "id")))

RelationKinds(type) ==
    IF type \in {"OneToMany", "ManyToMany"} THEN {"array"} ELSE {"single", "null"}

\* C10: after a read resolved a relation for the rows it returns, every one
\* of them has the relation property: an array for OneToMany and ManyToMany,
\* an entity or null for OneToOne and ManyToOne, whatever the metadata
C10_RelationAlwaysDefined ==
    \A r \in (IF last.op = "none" THEN {} ELSE RelationNames(last.cls)) :
        (/\ IsRead(last) /\ last.err.kind = ""
         /\ \/ last.options.relations = <<PathSpec(<<r>>)>>
            \/ last.options.relations = <<One(r, Config)>>) =>
            \A i \in 1..Len(Returned(last)) :
                /\ Returned(last)[i].cls # UNDEF
                /\ Has(Returned(last)[i].rels, r)
                /\ Get(Returned(last)[i].rels, r).kind \in
                      RelationKinds(relationMapGet(store[last.cls], r).type)

(***************************************************************************)
(* Vocabulary of the properties of relation loading                        *)
(***************************************************************************)
\* every name of the path is a relation of the class the path has reached
RECURSIVE PathKnown(_, _)
PathKnown(cls, path) ==
    \/ path = <<>>
    \/ /\ relationMapGet(store[cls], path[1]).propertyKey # UNDEF
       /\ PathKnown(relationMapGet(store[cls], path[1]).target, Tail(path))

\* the entities that have the relation attached, and what is attached to them
Attached(entities, relation) ==
    SelectSeq(entities, LAMBDA e : e.cls # UNDEF /\ Has(e.rels, relation))

Related(entities, relation) ==
    Flatten([i \in 1..Len(Attached(entities, relation)) |->
                Get(Attached(entities, relation)[i].rels, relation).items])

\* the segments of the path for which a batch of parents got the relation
\* attached: a segment is resolved when the batch before it is not empty
RECURSIVE Resolved(_, _)
Resolved(entities, path) ==
    IF path = <<>> \/ Attached(entities, path[1]) = <<>> THEN 0
    ELSE 1 + Resolved(Related(entities, path[1]), Tail(path))

\* a read that succeeded with the one dot path as its relations
ReadsPath(call, path) ==
    /\ IsRead(call) /\ call.err.kind = ""
    /\ call.options.relations = <<PathSpec(path)>>

QueryPaths == UNION { { <<r>> : r \in RelationNames(c) } \cup DeepPaths(c) : c \in QueryClasses }

\* C11: a read with a dot path of relations that returns N >= 1 parents
\* dispatches one query for the root and exactly one for every segment of
\* the path, whatever N is
C11_ExactQueryCount ==
    \A path \in QueryPaths :
        (ReadsPath(last, path) /\ PathKnown(last.cls, path) /\ Returned(last) # <<>>) =>
            Len(last.queries) = 1 + Len(path)

\* C11 as the code has it: a read with a dot path dispatches one query for
\* the root and one batched query for every segment that attached its
\* relation to a batch of parents, whatever the size of the batch; a segment
\* is not queried when the batch before it is empty or its loader returns
\* before the query, so the count is at most one per segment
C11_BatchedQueryCount ==
    \A path \in QueryPaths :
        ReadsPath(last, path) =>
            /\ Len(last.queries) = 1 + Resolved(Returned(last), path)
            /\ Len(last.queries) <= 1 + Len(path)

\* find loaded a path of two relations for three parents with three queries
C11_Witness ==
    /\ ReadsPath(last, <<"user", "posts">>) /\ last.op = "find"
    /\ Len(Returned(last)) = 3
    /\ Len(last.queries) = 3

\* C12: on a read with relations the afterLoad hook takes effect after the
\* relations are attached: every user returned with its posts has postCount
\* equal to the number of posts loaded
C12_HookSeesRelations ==
    (LoadsRelation(last, "User", "posts") /\
     last.arg.where \in { <<>>, <<Scalar("id", "1")>> }) =>
        /\ last.err.kind = ""
        /\ Returned(last) # <<>>
        /\ \A i \in 1..Len(Returned(last)) :
              LET user == Returned(last)[i]
              IN  /\ user.cls # UNDEF
                  /\ Has(user.rels, "posts")
                  /\ Has(user.props, "postCount")
                  /\ Get(user.props, "postCount") =
                        Str(Len(Get(user.rels, "posts").items))

HasAfterLoad(cls) == Truthy(store[cls].transformHooks.afterLoad)

HasBeforeSave(cls) == Truthy(store[cls].transformHooks.beforeSave)

\* C13: a hook that changes the entity in place and returns nothing leaves
\* the changed entity as the result: a read of a class with such an afterLoad
\* hook hands out entities, never undefined, and create and update of a class
\* with such a beforeSave hook write the changed partial
C13_HookMutationKept ==
    /\ (IsRead(last) /\ HasAfterLoad(last.cls) /\ last.err.kind = "") =>
          \A i \in 1..Len(Returned(last)) : Returned(last)[i].cls # UNDEF
    /\ (last.op \in {"create", "update"} /\ HasBeforeSave(last.cls)) =>
          /\ last.err.kind = ""
          /\ last.op = "create" =>
                /\ Len(RowsOf(db, last.cls)) = Len(RowsOf(last.before, last.cls)) + 1
                /\ RowsOf(db, last.cls)[Len(RowsOf(db, last.cls))].name = "stamped"

(***************************************************************************)
(* transaction(callback, pool) of utilities/mixins.ts, one await at a      *)
(* time.  The unit of work creates entities through a repository of the    *)
(* connection and then returns or throws; every call on the pool or the    *)
(* connection either resolves or rejects.  db is what other connections    *)
(* see; tx.work is what the open transaction sees.                         *)
(***************************************************************************)
MaxRuns == 2

MaxCalls == 2

TxClasses == {"Member", "Post"}

\* what the unit of work creates; the last post refers to a user that is not
\* there, so its INSERT is rejected and the callback throws
TxEntities(cls) ==
    IF cls = "Post"
    THEN NewEntities(cls) \cup { <<[k |-> "title", v |-> "P5"], [k |-> "userId", v |-> "9"]>> }
    ELSE NewEntities(cls)

\* const connection = await pool.getConnection()
TxGetConnection(ok) ==
    /\ tx.pc = "idle" /\ tx.runs < MaxRuns
    /\ tx' = [tx EXCEPT
                !.runs = @ + 1, !.begun = 0, !.commits = 0, !.rollbacks = 0,
                !.calls = 0, !.unit = "",
                !.checkouts = IF ok THEN @ + 1 ELSE @,
                !.pc = IF ok THEN "begin" ELSE "idle",
                !.outcome = IF ok THEN "" ELSE "threw",
                !.thrown = IF ok THEN "" ELSE "getConnection"]
    /\ UNCHANGED <<decl, store, repo, db, last, prevMut, flight>>

\* await connection.beginTransaction(), before the try block.  A transaction
\* an earlier run left open on the connection is committed by the server
\* when the next one begins on it, or was discarded with its session.
TxBeginTransaction(ok, leftover) ==
    /\ tx.pc = "begin"
    /\ leftover = "committed" => tx.open
    /\ db' = IF ok /\ leftover = "committed" THEN tx.work ELSE db
    /\ tx' = IF ok
             THEN [tx EXCEPT !.pc = "work", !.begun = 1, !.open = TRUE,
                             !.base = db', !.work = db']
             ELSE [tx EXCEPT !.pc = "idle", !.outcome = "threw",
                             !.thrown = "beginTransaction"]
    /\ UNCHANGED <<decl, store, repo, last, prevMut, flight>>

\* inside the callback: await repository(connection, repo).create(entity);
\* the callback does not catch what it throws
TxCreate(entity) ==
    /\ tx.pc = "work" /\ tx.calls < MaxCalls
    /\ Len(tx.work[getEntityMetadata(store, repo).tableName]) < MaxRows
    /\ LET out == create(tx.work, getEntityMetadata(store, repo), repo, FALSE, entity)
       IN  /\ last' = Call("create", repo, ByWhere(<<>>), NoOptions, entity, "t0",
                           out, tx.work)
           /\ tx' = [tx EXCEPT !.work = out.db, !.calls = @ + 1,
                               !.unit = IF out.err.kind = "" THEN @ ELSE "threw",
                               !.pc = IF out.err.kind = "" THEN @ ELSE "rollback"]
    /\ UNCHANGED <<decl, store, repo, db, prevMut, flight>>

\* the callback resolves: const result = await callback(connection)
TxReturn ==
    /\ tx.pc = "work"
    /\ tx' = [tx EXCEPT !.unit = "returned", !.pc = "commit"]
    /\ UNCHANGED <<decl, store, repo, db, last, prevMut, flight>>

\* the callback rejects with an error of its own: control enters catch
TxThrow ==
    /\ tx.pc = "work"
    /\ tx' = [tx EXCEPT !.unit = "threw", !.pc = "rollback"]
    /\ UNCHANGED <<decl, store, repo, db, last, prevMut, flight>>

\* await connection.commit(); return result.  A rejected commit is caught by
\* the catch block of the same try.
TxCommit(ok) ==
    /\ tx.pc = "commit"
    /\ db' = IF ok THEN tx.work ELSE db
    /\ tx' = [tx EXCEPT !.commits = @ + 1,
                        !.open = IF ok THEN FALSE ELSE @,
                        !.pc = IF ok THEN "release" ELSE "rollback"]
    /\ UNCHANGED <<decl, store, repo, last, prevMut, flight>>

\* a catch block that rethrows without rolling back
TxRollbackSkipped(ok) ==
    /\ tx.pc = "rollback"
    /\ tx' = [tx EXCEPT !.thrown = IF tx.unit = "threw" THEN "work" ELSE "commit",
                        !.pc = "release"]
    /\ UNCHANGED <<decl, store, repo, db, last, prevMut, flight>>

\* catch (error) { await connection.rollback(); throw error; }
TxRollback(ok) ==
    /\ tx.pc = "rollback"
    /\ tx' = [tx EXCEPT !.rollbacks = @ + 1,
                        !.open = IF ok THEN FALSE ELSE @,
                        !.work = IF ok THEN db ELSE @,
                        !.thrown = IF ~ok THEN "rollback"
                                   ELSE IF tx.unit = "threw" THEN "work" ELSE "commit",
                        !.pc = "release"]
    /\ UNCHANGED <<decl, store, repo, db, last, prevMut, flight>>

\* finally { connection.release(); }, then the promise settles
TxRelease ==
    /\ tx.pc = "release"
    /\ tx' = [tx EXCEPT !.releases = @ + 1, !.pc = "idle",
                        !.outcome = IF tx.thrown = "" THEN "returned" ELSE "threw"]
    /\ UNCHANGED <<decl, store, repo, db, last, prevMut, flight>>

InitTx ==
    /\ decl = Catalog
    /\ store = LoadedStore
    /\ repo \in TxClasses
    /\ db = Seed
    /\ last = NoCall
    /\ prevMut = NoCall
    /\ tx = NoTx
    /\ flight = NoFlight

NextTx ==
    \/ \E ok \in BOOLEAN : TxGetConnection(ok)
    \/ \E ok \in BOOLEAN, leftover \in {"committed", "discarded"} :
          TxBeginTransaction(ok, leftover)
    \/ \E e \in TxEntities(repo) : TxCreate(e)
    \/ TxReturn
    \/ TxThrow
    \/ \E ok \in BOOLEAN : TxCommit(ok)
    \/ \E ok \in BOOLEAN : TxRollback(ok)
    \/ TxRelease

\* the steps that settle a run of transaction() once it holds a connection
TxSettles ==
    \/ \E ok \in BOOLEAN, leftover \in {"committed", "discarded"} :
          TxBeginTransaction(ok, leftover)
    \/ TxReturn
    \/ TxThrow
    \/ \E ok \in BOOLEAN : TxCommit(ok)
    \/ \E ok \in BOOLEAN : TxRollback(ok)
    \/ TxRelease

\* every await settles and the callback comes to an end: a run of
\* transaction() that has a connection does not stop halfway.  Nothing
\* obliges the caller to start another run.
SpecTx == InitTx /\ [][NextTx]_vars /\ WF_vars(TxSettles)

\* C14: every connection transaction() checks out of the pool is eventually
\* released, and released exactly once, whichever of beginTransaction, the
\* unit of work, commit or rollback fails afterwards.
C14_ConnectionReleased ==
    /\ [](tx.releases <= tx.checkouts)
    /\ (tx.checkouts > tx.releases) ~> (tx.checkouts = tx.releases)

\* a run of transaction() that began a transaction has settled
TxSettled == tx.pc = "idle" /\ tx.begun = 1

\* C15 as stated: every begun transaction is ended by exactly one of commit
\* and rollback before the connection is released; commit, and the result
\* returned, when the unit of work returns; rollback without any commit, the
\* unit of work's own error rethrown and its writes not visible, when the
\* unit of work throws.
C15_ExactlyOneOfCommitOrRollback ==
    /\ tx.pc = "release" => tx.commits + tx.rollbacks = 1 /\ ~tx.open
    /\ TxSettled =>
          /\ tx.commits + tx.rollbacks = 1
          /\ ~tx.open
          /\ tx.unit = "returned" =>
                tx.commits = 1 /\ tx.outcome = "returned" /\ db = tx.work
          /\ tx.unit = "threw" =>
                tx.rollbacks = 1 /\ tx.commits = 0 /\ tx.thrown = "work" /\ db = tx.base

\* C15, as the code has it: commit is invoked exactly when the unit of work
\* returns, rollback when the unit of work throws or commit rejects, each at
\* most once and before the release.  The result is returned only after a
\* commit that succeeded, and then the writes are visible.  Otherwise the
\* caller gets the unit of work's error, or commit's error after a rollback,
\* with nothing written; or rollback's own error in place of either, and then
\* the transaction is still open when the connection is released.
C15_CommitThenRollbackOnFailure ==
    /\ tx.commits <= 1 /\ tx.rollbacks <= 1
    /\ tx.pc = "release" => tx.commits + tx.rollbacks >= 1
    /\ tx.pc \in {"release", "idle"} /\ tx.begun = 1 =>
          /\ tx.commits = (IF tx.unit = "returned" THEN 1 ELSE 0)
          /\ tx.unit = "threw" => tx.rollbacks = 1
          /\ tx.thrown \in {"", "work", "commit", "rollback"}
          /\ tx.thrown = "" => tx.unit = "returned" /\ tx.rollbacks = 0 /\ ~tx.open
                               /\ db = tx.work
          /\ tx.thrown = "work" => tx.unit = "threw" /\ ~tx.open /\ db = tx.base
          /\ tx.thrown = "commit" => tx.unit = "returned" /\ tx.rollbacks = 1
                                     /\ ~tx.open /\ db = tx.base
          /\ tx.thrown = "rollback" => tx.rollbacks = 1 /\ tx.open /\ db = tx.base
    /\ TxSettled => (tx.outcome = "returned" <=> tx.thrown = "")

\* a unit of work created a row and then threw; the run rolled back and settled
C15_Witness ==
    /\ TxSettled
    /\ tx.unit = "threw" /\ tx.thrown = "work" /\ tx.calls >= 1
    /\ tx.rollbacks = 1 /\ tx.commits = 0
    /\ last.op = "create"

(***************************************************************************)
(* The row mapper on its own: mapToEntity on a stored row of events, then  *)
(* mapToDB on the entity it made, written back over the row.               *)
(***************************************************************************)
StoredEvents ==
    { [id |-> "1", name |-> n, active |-> a, occurred_at |-> d, payload |-> p] :
        n \in {"Alice", NULL},
        a \in {"0", "1", "2", NULL},
        d \in {"t0", "t1.5", NULL},
        p \in JsonValues \cup {"1", "Alice", NULL} }

MapToEntity ==
    /\ last = NoCall
    /\ LET entity == mapToEntity(getEntityMetadata(store, repo), repo, db.events[1])
       IN  last' = Call("mapToEntity", repo, ByWhere(<<>>), NoOptions, <<>>, "t0",
                        Done(NoError, Ret("entity", "0", entity, <<>>), <<>>, db), db)
    /\ UNCHANGED <<decl, store, repo, db, prevMut, tx, flight>>

MapToDB ==
    /\ last.op = "mapToEntity"
    /\ LET dbObject == mapToDB(getEntityMetadata(store, repo), last.ret.entity.props)
       IN  /\ ~mapToDBThrows(dbObject)
           /\ db' = [db EXCEPT !.events[1] =
                        [c \in DOMAIN @ |-> IF Has(dbObject, c) THEN Get(dbObject, c)
                                            ELSE @[c]]]
           /\ last' = Call("mapToDB", repo, ByWhere(<<>>), NoOptions, dbObject, "t0",
                           Done(NoError, last.ret, <<>>, db'), db)
    /\ UNCHANGED <<decl, store, repo, prevMut, tx, flight>>

InitRow ==
    /\ decl = Catalog
    /\ store = LoadedStore
    /\ repo = "Event"
    /\ \E row \in StoredEvents : db = [events |-> <<row>>]
    /\ last = NoCall
    /\ prevMut = NoCall
    /\ tx = NoTx
    /\ flight = NoFlight

NextRow == MapToEntity \/ MapToDB

SpecRow == InitRow /\ [][NextRow]_vars

\* the coercions the mapper is documented to lose: a boolean becomes 0 or 1, a
\* date loses its fraction of a second
Lossy(type, value) ==
    CASE value = NULL     -> NULL
      [] type = "boolean" -> IF value = "0" THEN "0" ELSE "1"
      [] type = "date"    -> FullSecond(value)
      [] OTHER            -> value

\* C16: for every column, of whatever type, the row mapToDB makes of the
\* entity mapToEntity made of a stored row has the stored value again, up to
\* the lossy coercions; null stays null and a json column keeps its stored
\* text, a text that is not valid JSON included.
C16_RowRoundTrip ==
    last.op = "mapToDB" =>
        \A i \in 1..Len(getEntityMetadata(store, repo).columns) :
            LET column == getEntityMetadata(store, repo).columns[i]
            IN  db.events[1][column.columnName] =
                    Lossy(column.type, last.before.events[1][column.columnName])

HasPrimaryKey(cls) == primaryKeyOf(getEntityMetadata(store, cls)).propertyKey # UNDEF

\* the call inserted its row and resolved
Created(call) == call.op = "create" /\ call.err.kind = ""

\* the rows of the entity's table that were not there before the call
NewRows(call) ==
    Range(db[getEntityMetadata(store, call.cls).tableName]) \
    Range(call.before[getEntityMetadata(store, call.cls).tableName])

\* the entity a row of the table maps to, hooks aside
EntityOfRow(cls, row) ==
    mapColumns(getEntityMetadata(store, cls).columns, row, NewEntity(cls))

\* C17: create on a type with a primary key returns the entity it persisted,
\* never a number: the re-fetched entity for a plain partial, the instance
\* with the re-fetched fields merged in for a live instance, whatever the
\* soft-delete column of the new row holds and whoever assigned its primary
\* key; on a type without primary key it returns the insert identifier and
\* issues the INSERT only.
C17_CreateReturnsEntity ==
    Created(last) =>
        IF HasPrimaryKey(last.cls)
        THEN /\ last.ret.kind = "entity"
             /\ last.ret.entity.cls = last.cls
             /\ \E row \in NewRows(last) :
                   last.ret.entity.props =
                       IF last.arg.isInstance
                       THEN Assign(last.updates, EntityOfRow(last.cls, row).props)
                       ELSE EntityOfRow(last.cls, row).props
        ELSE last.ret.kind = "number" /\ Len(last.queries) = 1

\* the columns the payload of an update names
PayloadColumns(call) ==
    { columnMapGet(store[call.cls], call.updates[i].k).columnName :
        i \in 1..Len(call.updates) }

\* the rows the filter of an update selects: those matching every equality of
\* the where clause and, unless withDeleted, not soft-deleted; for a live
\* instance the row with its primary key
Filtered(call, row) ==
    IF call.arg.isInstance
    THEN row[primaryKeyOf(store[call.cls]).columnName] =
             Get(call.arg.entity.props, primaryKeyOf(store[call.cls]).propertyKey)
    ELSE /\ \A i \in 1..Len(call.arg.where) :
               /\ columnMapGet(store[call.cls], call.arg.where[i].k).propertyKey # UNDEF
               /\ row[columnMapGet(store[call.cls], call.arg.where[i].k).columnName] =
                      call.arg.where[i].vals[1]
         /\ SoftDeleteEnabled(call.cls) /\ ~call.options.withDeleted =>
               ~SoftDeleted(call.cls, row)

Registered(cls) == \E i \in 1..Len(decl) : decl[i].cls = cls

\* C19: constructing a repository for a class no decorator registered, or
\* calling it, throws EntityMetadataNotFoundError with the name of the class.
C19_UnregisteredRejected ==
    (last.op \in {"new", "find"} /\ ~Registered(last.cls)) =>
        last.err = EntityMetadataNotFoundError(ClassName(last.cls))

\* the call filters on { id: { $isNull: value } } and dispatched its query
FiltersIsNull(call, value) ==
    /\ RendersWhere(call)
    /\ call.arg.where = <<IsNull(value)>>
    /\ call.queries # <<>>

\* C20: $isNull renders IS NULL for true and IS NOT NULL for false, and in
\* both cases puts no value placeholder in the clause and no value among the
\* parameters: the clause has the column identifier as its only placeholder.
C20_IsNullRendersBoth ==
    \A value \in {"true", "false"} :
        FiltersIsNull(last, value) =>
            /\ last.queries[1].sql.where[1] =
                   <<"??", IF value = "true" THEN "IS NULL" ELSE "IS NOT NULL">>
            /\ Arity(last.queries[1].sql.where[1]) = 1
            /\ <<value>> \notin Range(last.queries[1].params)
            /\ Len(last.queries[1].params) = Placeholders(last.queries[1].sql)

(***************************************************************************)
(* Reads and mutations with where clauses of every value shape, orderBy    *)
(* in both forms, limit and offset: one call on the seeded tables.         *)
(***************************************************************************)
RenderClasses == {"User", "Member", "Post", "DocUser"}

TextKey(cls) == IF cls = "Post" THEN "title" ELSE "name"

DateKey(cls) == IF cls = "User" THEN "createdAt" ELSE IF cls = "Member" THEN "deleted_at" ELSE "created_at"

\* { key: null }
NullValue(k) == [k |-> k, kind |-> "null", vals |-> <<NULL>>, ops |-> <<>>]

RenderWheres(cls) ==
    { <<>>,
      <<Scalar("id", "2")>>,
      <<NullValue(TextKey(cls))>>,
      <<Ops("id", <<Op("$gt", <<"1">>), Op("$lt", <<"3">>)>>)>>,
      <<Ops("id", <<Op("$between", <<"1", "2">>)>>)>>,
      <<Ops("id", <<Op("$in", <<"1", "3">>)>>), Scalar(TextKey(cls), "Alice")>>,
      <<IsNull("true")>>,
      <<Ops("id", <<Op("$gt", <<"1">>), Op("$bad", <<"1">>)>>)>> }
    \cup (IF cls = "Post" THEN {} ELSE { <<WhereOfValue(DateKey(cls), "Date(t1)")>> })

OrderTwo(cls, first, second) ==
    [form |-> "map", fields |-> <<[k |-> TextKey(cls), v |-> first],
                                  [k |-> "id", v |-> second]>>]

RenderOrders(cls) ==
    { NoOrderBy, OrderList("id"), OrderMap("id", "desc"), OrderMap("id", "ASC"),
      OrderMap("id", "sideways"), OrderMap("id", UNDEF),
      OrderTwo(cls, "asc", "DESC"), OrderTwo(cls, UNDEF, "Desc") }

RenderLimits == {UNDEF, "0", "2"}

RenderOffsets == {UNDEF, "0", "1"}

\* select lists naming a column by its property key and by its column name
AliasSelects(cls) ==
    CASE cls = "User" -> { <<"id", "createdAt">>, <<"id", "created_at">> }
      [] cls = "Post" -> { <<"id", "userId">>, <<"id", "user_id">> }
      [] OTHER -> {}

RenderOptions(cls) ==
    { [NoOptions EXCEPT !.select = s, !.orderBy = o] :
        s \in {<<>>, ValidSelect(cls)}, o \in RenderOrders(cls) }
    \cup
    { [NoOptions EXCEPT !.select = s] : s \in AliasSelects(cls) }
    \cup
    { [NoOptions EXCEPT !.select = ValidSelect(cls), !.orderBy = o,
                        !.limit = l, !.offset = f] :
        o \in {NoOrderBy, OrderMap("id", "desc")},
        l \in RenderLimits, f \in RenderOffsets }

RenderRelations(cls) ==
    { [NoOptions EXCEPT !.select = ValidSelect(cls), !.relations = <<r>>] :
        r \in RelationSpecs(cls) }

InitRender ==
    /\ decl = Catalog
    /\ store = LoadedStore
    /\ repo \in RenderClasses
    /\ db = Seed
    /\ last = NoCall
    /\ prevMut = NoCall
    /\ tx = NoTx
    /\ flight = NoFlight

\* the behaviours are one call each on the seeded tables
\* a second registered property of the class, and a property no @Column
\* declares
OtherKey(cls) ==
    CASE cls = "User" -> "email"
      [] cls = "Post" -> "userId"
      [] cls = "DocUser" -> "id"
      [] OTHER -> "deleted_at"

UnregisteredKey == "nickname"

\* partials with a null, an undefined and an unregistered property
RenderPartials(cls) ==
    { <<[k |-> TextKey(cls), v |-> NULL]>>,
      <<[k |-> TextKey(cls), v |-> UNDEF]>>,
      <<[k |-> TextKey(cls), v |-> "David"], [k |-> OtherKey(cls), v |-> UNDEF]>>,
      <<[k |-> TextKey(cls), v |-> "David"], [k |-> UnregisteredKey, v |-> "Dave"]>> }

RenderUpdates(cls) == Updates(cls) \cup RenderPartials(cls)

RenderEntities(cls) == NewEntities(cls) \cup RenderPartials(cls)

NextRender ==
    \/ \E w \in RenderWheres(repo), o \in RenderOptions(repo) :
          last = NoCall /\ Find(w, o)
    \/ \E w \in RenderWheres(repo), o \in RenderOptions(repo) :
          last = NoCall /\ FindOne(w, o)
    \/ \E o \in RenderRelations(repo) : last = NoCall /\ Find(<<>>, o)
    \/ \E i \in BOOLEAN, e \in RenderEntities(repo) : last = NoCall /\ Create(i, e)
    \/ \E w \in RenderWheres(repo), u \in RenderUpdates(repo), wd \in BOOLEAN :
          last = NoCall /\ Update(ByWhere(w), u, wd)
    \/ \E w \in RenderWheres(repo), t \in Now : last = NoCall /\ Delete(ByWhere(w), t)

SpecRender == InitRender /\ [][NextRender]_vars

(***************************************************************************)
(* Vocabulary of the properties of the rendered statements                 *)
(***************************************************************************)
\* the number of parameters before the where parameters of a statement
WhereFrom(sql) ==
    CASE sql.verb = "SELECT" -> Arity(sql.select) + 1
      [] sql.verb = "UPDATE" -> 1 + 2 * Len(sql.set)
      [] sql.verb = "SELECTJOIN" -> 15
      [] OTHER -> 1

\* the conditions of a statement: the column parameter and the operator token
\* of each where clause, in the order of the text
Conditions(query) ==
    [i \in 1..Len(query.sql.where) |->
        [column |-> ClauseArgs(query.sql.where, query.params,
                               WhereFrom(query.sql), i)[1][1],
         operator |-> query.sql.where[i][2]]]

\* the (key, operator) pairs of a where descriptor, a bare scalar, a Date or
\* null being the single operator $eq, as the conditions they stand for
Pairs(cls, where) ==
    Flatten([i \in 1..Len(where) |->
        LET column == columnMapGet(store[cls], where[i].k).columnName
            ops == IF where[i].kind = "ops" THEN where[i].ops
                   ELSE <<Op("$eq", where[i].vals)>>
        IN  [j \in 1..Len(ops) |->
                [column |-> column, operator |-> operatorQueryMap(ops[j].op).operator]]])

\* a call without relations that renders the where descriptor given to it
RendersDescriptor(call) ==
    /\ call.op \in {"find", "findOne", "update", "delete"}
    /\ ~call.arg.isInstance
    /\ call.options.relations = <<>>
    /\ FieldsOfWhere(call.arg.where) \subseteq Properties(call.cls)

RangeOfIds == <<Ops("id", <<Op("$gt", <<"1">>), Op("$lt", <<"3">>)>>)>>

\* C21: the where clause of a statement has exactly one condition for every
\* (key, operator) pair of the descriptor, in the descriptor's order, a bare
\* scalar, a Date or null counting as the operator eq on its key, followed by
\* nothing but the implicit soft-delete condition; find with id greater than
\* 1 and less than 3 over ids 1, 2, 3 returns the row with id 2 alone (on an
\* entity without an afterLoad hook); an operator outside the supported set fails with UnsupportedQueryOperator
C21_OneConditionPerOperator ==
    RendersDescriptor(last) =>
        IF HasBadOperator(last.cls, last.arg.where)
        THEN last.err.kind = "UnsupportedQueryOperator" /\ last.queries = <<>>
        ELSE /\ last.err.kind # "UnsupportedQueryOperator"
             /\ last.queries # <<>>
             /\ LET given == Pairs(last.cls, last.arg.where)
                    rendered == Conditions(last.queries[1])
                IN  /\ Len(rendered) \in {Len(given), Len(given) + 1}
                    /\ SubSeq(rendered, 1, Len(given)) = given
                    /\ Len(rendered) > Len(given) =>
                           rendered[Len(rendered)].operator = "IS NULL"
             /\ ( /\ last.op = "find" /\ last.err.kind = ""
                  /\ ~HasAfterLoad(last.cls)
                  /\ last.arg.where = RangeOfIds
                  /\ last.options.limit = UNDEF /\ last.options.offset = UNDEF ) =>
                    [i \in 1..Len(last.ret.entities) |->
                        Get(last.ret.entities[i].props, "id")] = <<"2">>

\* the column a select entry names, by its property key or by its column name
ColumnNamed(cls, field) ==
    LET hits == {i \in 1..Len(store[cls].columns) :
                    \/ store[cls].columns[i].propertyKey = field
                    \/ store[cls].columns[i].columnName = field}
    IN  IF hits = {} THEN NoColumn
        ELSE store[cls].columns[CHOOSE i \in hits : \A j \in hits : i <= j]

\* the column names a select list stands for: those of its entries, or of
\* every column in declaration order when there is no list
SelectedColumns(cls, select) ==
    IF Len(select) > 0
    THEN [i \in 1..Len(select) |-> ColumnNamed(cls, select[i]).columnName]
    ELSE [i \in 1..Len(store[cls].columns) |-> store[cls].columns[i].columnName]

\* the identifiers a SELECT statement passes for its select list
SelectParams(query) ==
    [i \in 1..Arity(query.sql.select) |-> query.params[i][1]]

\* C22: a find or findOne whose where renders and whose select entries each
\* name a column, by property key or by column name, does not fail with
\* ColumnNotFound and passes as select identifiers the column names of the
\* entries, or of every column in declaration order when no list is given
C22_SelectPassesColumnNames ==
    ( /\ last.op \in {"find", "findOne"}
      /\ RendersDescriptor(last)
      /\ ~HasBadOperator(last.cls, last.arg.where)
      /\ \A i \in 1..Len(last.options.select) :
            ColumnNamed(last.cls, last.options.select[i]).propertyKey # UNDEF ) =>
        /\ last.err.kind # "ColumnNotFound"
        /\ last.queries # <<>>
        /\ SelectParams(last.queries[1]) =
              SelectedColumns(last.cls, last.options.select)

\* the fields of an orderBy with a recognized direction (asc or desc in any
\* case; every field of the list form, ascending), as [column, direction]
RecognizedOrder(cls, orderBy) ==
    LET dir(f) == IF orderBy.form = "list" THEN "ASC" ELSE toUpperCase(f.v)
        kept == SelectSeq(orderBy.fields,
                    LAMBDA f : orderBy.form = "list" \/
                               (Truthy(f.v) /\ toUpperCase(f.v) \in {"ASC", "DESC"}))
    IN  [i \in 1..Len(kept) |->
            [column |-> columnMapGet(store[cls], kept[i].k).columnName,
             direction |-> dir(kept[i])]]

\* the ORDER BY of a SELECT statement as [column, direction], in text order
OrderOf(query) ==
    LET from == WhereFrom(query.sql) +
                SumArity(query.sql.where, Len(query.sql.where))
    IN  [i \in 1..Len(query.sql.order) |->
            [column |-> query.params[from + i][1],
             direction |-> query.sql.order[i][2]]]

\* C23: the ORDER BY of the statement of a find or findOne has, in the
\* caller's field order, one '?? ASC' or '?? DESC' token with the field's
\* column as its parameter for every field with a recognized direction and
\* nothing for any other field
C23_OrderByRecognizedOnly ==
    ( /\ last.op \in {"find", "findOne"}
      /\ RendersDescriptor(last)
      /\ FieldsOfOrder(last.options.orderBy) \subseteq Properties(last.cls)
      /\ last.queries # <<>> ) =>
        OrderOf(last.queries[1]) = RecognizedOrder(last.cls, last.options.orderBy)

(***************************************************************************)
(* Reads that load one relation, of each kind, under a relation            *)
(* configuration with every combination of select, orderBy, limit, offset  *)
(* and where: one call on the seeded tables.                               *)
(***************************************************************************)
RelationClasses == {"DocUser", "DocPost", "Member", "Team"}

\* the relations of each class whose loader reaches its query
LoadedRelations(cls) ==
    CASE cls = "DocUser" -> {"posts", "roles"}
      [] cls = "DocPost" -> {"user"}
      [] cls = "Member"  -> {"profile"}
      [] cls = "Team"    -> {"members", "owner", "lead", "seats"}

\* a select list of the target that keeps the property the loader matches on
TargetSelect(target) ==
    CASE target = "DocPost" -> <<"id", "user_id">>
      [] target = "Profile" -> <<"id", "member_id">>
      [] target = "Seat"    -> <<"id", "team_id">>
      [] OTHER              -> <<"id", "name">>

\* the property of the target the batch of a relation is keyed on (for
\* ManyToMany the key is a column of the join table: the target's id is used)
BatchKey(relation) ==
    CASE relation.propertyKey = "posts"   -> "user_id"
      [] relation.propertyKey = "profile" -> "member_id"
      [] relation.propertyKey = "seats"   -> "team_id"
      [] OTHER                            -> "id"

\* the where of a relation configuration: absent, on the batch key, on
\* another property
ConfigWheres(relation) ==
    { <<>>,
      <<Scalar(BatchKey(relation), "1")>>,
      <<Ops(IF BatchKey(relation) = "id" THEN TargetSelect(relation.target)[2] ELSE "id",
            <<Op("$in", <<"1", "2", "3", "Alice", "admin">>)>>)>> }

ConfigsOf(relation) ==
    { [Config EXCEPT !.select = s, !.orderBy = o, !.limit = l, !.offset = f,
                     !.hasWhere = (w # <<>>), !.where = w] :
        s \in {<<>>, TargetSelect(relation.target)},
        o \in {NoOrderBy, OrderMap("id", "desc")},
        l \in {UNDEF, "0", "1"},
        f \in {UNDEF, "0", "1"},
        w \in ConfigWheres(relation) }

RelationReads(cls) ==
    UNION { { [NoOptions EXCEPT !.relations = <<One(r, c)>>] :
                c \in ConfigsOf(relationMapGet(store[cls], r)) } :
            r \in LoadedRelations(cls) }
    \cup { [NoOptions EXCEPT !.relations = <<PathSpec(<<r>>)>>] :
            r \in LoadedRelations(cls) }

RelationWheres == { <<>>, <<Scalar("id", "2")>> }

InitRelation ==
    /\ decl = Catalog
    /\ store = LoadedStore
    /\ repo \in RelationClasses
    /\ db = Seed
    /\ last = NoCall
    /\ prevMut = NoCall
    /\ tx = NoTx
    /\ flight = NoFlight

NextRelation ==
    \/ last = NoCall /\ \E w \in RelationWheres, o \in RelationReads(repo) : Find(w, o)
    \/ last = NoCall /\ \E w \in RelationWheres, o \in RelationReads(repo) : FindOne(w, o)

SpecRelation == InitRelation /\ [][NextRelation]_vars

(***************************************************************************)
(* Vocabulary of the properties of relation loads                          *)
(***************************************************************************)
\* a read that loads one relation under a configuration, and whose loader
\* has dispatched its query (the statement after the root statement)
LoadsConfigured(call) ==
    /\ call.op \in {"find", "findOne"}
    /\ Len(call.options.relations) = 1
    /\ call.options.relations[1].form = "map"
    /\ Len(call.queries) >= 2

ConfiguredRelation(call) ==
    relationMapGet(store[call.cls], call.options.relations[1].entries[1].k)

Configuration(call) == call.options.relations[1].entries[1].v

\* the LIMIT and OFFSET parameters of a statement, UNDEF without the clause
LimitOf(query) ==
    IF query.sql.limit = <<"LIMIT", "?">>
    THEN query.params[Len(query.params) - Arity(query.sql.offset)][1]
    ELSE UNDEF

OffsetOf(query) ==
    IF query.sql.offset = <<"OFFSET", "?">>
    THEN query.params[Len(query.params)][1]
    ELSE UNDEF

\* C24: the query that loads a relation under a configuration selects the
\* columns of the configuration's select, is ordered by its orderBy, and has
\* its limit and its offset (0 included) as LIMIT and OFFSET parameters, for
\* a relation of any of the four kinds
C24_ConfigurationApplied ==
    LoadsConfigured(last) =>
        LET config == Configuration(last)
            target == ConfiguredRelation(last).target
            query  == last.queries[2]
        IN  /\ Len(config.select) > 0 =>
                  /\ query.sql.verb = "SELECT"
                  /\ SelectParams(query) = SelectedColumns(target, config.select)
            /\ OrderOf(query) = RecognizedOrder(target, config.orderBy)
            /\ config.limit # UNDEF => LimitOf(query) = config.limit
            /\ config.offset # UNDEF => OffsetOf(query) = config.offset

\* the property of the parents a relation's batch is keyed on
ParentKey(relation) ==
    CASE relation.type = "ManyToOne" -> relation.foreignKey
      [] relation.type = "OneToOne"  -> OrElse(relation.foreignKey, "id")
      [] OTHER                       -> "id"

\* the entities a read returned
Parents(call) ==
    IF call.ret.kind = "entity" THEN <<call.ret.entity>> ELSE call.ret.entities

\* the root rows of a read, as the root statement alone returns them
RootRows(call) ==
    Run(call.before, call.queries[1].sql, call.queries[1].params).rows

\* s is a subsequence of t
RECURSIVE IsSubsequence(_, _)
IsSubsequence(s, t) ==
    IF s = <<>> THEN TRUE
    ELSE IF t = <<>> THEN FALSE
    ELSE IF Head(s) = Head(t) THEN IsSubsequence(Tail(s), Tail(t))
    ELSE IsSubsequence(s, Tail(t))

\* the statement filters the batch key by the keys of the parents: the join
\* statement of ManyToMany by its text, a SELECT by an IN condition
HasBatchFilter(call, relation, query) ==
    LET keys == {row[columnMapGet(store[call.cls], ParentKey(relation)).columnName] :
                    row \in Range(RootRows(call))} \ {NULL}
    IN  IF query.sql.verb = "SELECTJOIN"
        THEN {ToSql(v) : v \in Range(query.params[15])} = keys
        ELSE \E i \in 1..Len(query.sql.where) :
                LET args == ClauseArgs(query.sql.where, query.params,
                                       WhereFrom(query.sql), i)
                IN  /\ query.sql.where[i][2] = "IN"
                    /\ args[1][1] = columnMapGet(store[relation.target],
                                                 BatchKey(relation)).columnName
                    /\ {ToSql(v) : v \in Range(args[2])} = keys

\* a related row attached to a parent belongs to that parent
Belongs(tables, parent, relation, item) ==
    IF relation.type = "ManyToMany"
    THEN \E j \in 1..Len(tables[relation.joinTableName]) :
            /\ tables[relation.joinTableName][j][relation.joinColumnName] =
                  Get(parent.props, "id")
            /\ tables[relation.joinTableName][j][relation.inverseJoinColumnName] =
                  Get(item.props, "id")
    ELSE Get(item.props, BatchKey(relation)) = Get(parent.props, ParentKey(relation))

\* C25: the query that loads a relation filters the batch key by the parents'
\* keys and has, AND-ed with that filter, every condition of the relation's
\* where merged with the configuration's where (a where on the batch key
\* included); and every related row attached to a parent belongs to it
C25_BatchFilterKept ==
    LoadsConfigured(last) =>
        LET relation == ConfiguredRelation(last)
            config   == Configuration(last)
            query    == last.queries[2]
            merged   == WhereAssign(relation.where, config.where)
        IN  /\ HasBatchFilter(last, relation, query)
            /\ IsSubsequence(Pairs(relation.target, merged), Conditions(query))
            /\ last.err.kind = "" =>
                  \A i \in 1..Len(Parents(last)) :
                      LET parent == Parents(last)[i]
                      IN  Has(parent.rels, relation.propertyKey) =>
                             \A j \in 1..Len(Get(parent.rels, relation.propertyKey).items) :
                                Belongs(last.before, parent, relation,
                                        Get(parent.rels, relation.propertyKey).items[j])

(***************************************************************************)
(* A call carried out statement by statement.  last holds the call as it   *)
(* runs when the connection answers every statement (each statement is the *)
(* one rendered from the answers before it); flight follows the awaits: a  *)
(* statement is dispatched, the connection resolves or rejects it, and the *)
(* call goes on or throws.  The connection may reject any statement.       *)
(***************************************************************************)
FlightClasses == {"Team", "DocUser", "DocPost"}

Nested(name, inner) ==
    One(name, [Config EXCEPT !.hasRelations = TRUE, !.relations = <<inner>>])

\* relation lists with siblings, nesting, a configuration the renderer
\* rejects and a configuration whose statement the connection rejects
FlightRelations(cls) ==
    CASE cls = "Team" ->
            { <<PathSpec(<<"seats", "team">>), PathSpec(<<"owner">>)>>,
              <<Nested("seats", PathSpec(<<"team">>)), One("members", Config)>>,
              <<MapSpec(<<[k |-> "members", v |-> Config], [k |-> "lead", v |-> Config]>>),
                PathSpec(<<"seats">>)>>,
              <<One("owner", [Config EXCEPT !.hasWhere = TRUE, !.where = <<Unknown>>]),
                PathSpec(<<"seats">>)>>,
              <<One("seats", [Config EXCEPT !.offset = "1"]), PathSpec(<<"owner">>)>> }
      [] cls = "DocUser" ->
            { <<PathSpec(<<"posts", "user">>), PathSpec(<<"roles">>)>>,
              <<Nested("posts", One("user", [Config EXCEPT !.select = <<"nope">>])),
                PathSpec(<<"roles">>)>> }
      [] OTHER ->
            { <<PathSpec(<<"user", "roles">>), PathSpec(<<"user", "posts">>)>> }

\* a call starts: out is what it will have dispatched and returned
FlightStart(op, arg, options, updates, out) ==
    /\ last' = Call(op, repo, arg, options, updates, "t0", out, db)
    /\ flight' = [NoFlight EXCEPT !.pc = "running"]
    /\ UNCHANGED <<decl, store, repo, db, prevMut, tx>>

\* find / findOne is called: the read starts
FlightBegin(op, where, relations) ==
    /\ flight.pc = "idle"
    /\ last = NoCall
    /\ FlightStart(op, ByWhere(where), [NoOptions EXCEPT !.relations = relations], <<>>,
                   IF op = "find"
                   THEN FindOut(db, find(db, store, repo, where,
                                         [NoOptions EXCEPT !.relations = relations]))
                   ELSE FindOneOut(db, findOne(db, store, repo, where,
                                               [NoOptions EXCEPT !.relations = relations])))

\* create(entity) or update(instance, updates) is called: the INSERT or
\* UPDATE, then the SELECT that reads the row back
FlightBeginWrite(op, updates) ==
    /\ flight.pc = "idle"
    /\ last = NoCall
    /\ FlightStart(op,
                   IF op = "create" THEN ByWhere(<<>>) ELSE ByInstance(InstanceOf(repo, "2")),
                   NoOptions, updates,
                   IF op = "create"
                   THEN create(db, getEntityMetadata(store, repo), repo, FALSE, updates)
                   ELSE update(db, getEntityMetadata(store, repo), repo,
                               ByInstance(InstanceOf(repo, "2")), TRUE, updates, FALSE))

\* a call that dispatches its next statement without awaiting the one before
FlightDispatchEager ==
    /\ flight.pc = "running"
    /\ flight.sent < Len(last.queries)
    /\ flight' = [flight EXCEPT !.sent = @ + 1, !.inflight = @ \cup {flight.sent + 1}]
    /\ UNCHANGED <<decl, store, repo, db, last, prevMut, tx>>

\* await this.query(sql, params): the next statement is dispatched once the
\* one before it has been answered
FlightDispatch ==
    /\ flight.pc = "running"
    /\ flight.inflight = {}
    /\ flight.sent < Len(last.queries)
    /\ flight' = [flight EXCEPT !.sent = @ + 1, !.inflight = {flight.sent + 1}]
    /\ UNCHANGED <<decl, store, repo, db, last, prevMut, tx>>

\* the connection answers a statement it accepts; an INSERT or UPDATE has
\* changed the tables by then
FlightResolve ==
    /\ flight.pc = "running"
    /\ \E k \in flight.inflight :
          /\ ~(k = Len(last.queries) /\ last.err = DbError)
          /\ flight' = [flight EXCEPT !.inflight = @ \ {k}]
          /\ db' = IF last.queries[k].sql.verb \in {"INSERT", "UPDATE"}
                   THEN Run(db, last.queries[k].sql, last.queries[k].params).db
                   ELSE db
    /\ UNCHANGED <<decl, store, repo, last, prevMut, tx>>

\* the connection rejects a statement: the await throws, nothing catches it
FlightReject ==
    /\ flight.pc = "running"
    /\ \E k \in flight.inflight :
          flight' = [flight EXCEPT !.pc = "rejected", !.inflight = @ \ {k},
                                   !.err = DbError]
    /\ UNCHANGED <<decl, store, repo, db, last, prevMut, tx>>

\* every statement has been answered: the read returns, or throws what the
\* renderer or the mapper threw after the last statement
FlightSettle ==
    /\ flight.pc = "running"
    /\ flight.inflight = {}
    /\ flight.sent = Len(last.queries)
    /\ last.err # DbError
    /\ flight' = [flight EXCEPT !.pc = IF last.err.kind = "" THEN "resolved"
                                       ELSE "rejected",
                                !.err = last.err]
    /\ UNCHANGED <<decl, store, repo, db, last, prevMut, tx>>

InitFlight ==
    /\ decl = Catalog
    /\ store = LoadedStore
    /\ repo \in FlightClasses
    /\ db = Seed
    /\ last = NoCall
    /\ prevMut = NoCall
    /\ tx = NoTx
    /\ flight = NoFlight

NextFlight ==
    \/ \E op \in {"find", "findOne"}, w \in RelationWheres, r \in FlightRelations(repo) :
          FlightBegin(op, w, r)
    \/ \E e \in NewEntities(repo) : FlightBeginWrite("create", e)
    \/ \E u \in Updates(repo) : FlightBeginWrite("update", u)
    \/ FlightDispatch
    \/ FlightResolve
    \/ FlightReject
    \/ FlightSettle

SpecFlight == InitFlight /\ [][NextFlight]_vars

(***************************************************************************)
(* Vocabulary of the properties of a read in flight                        *)
(***************************************************************************)
\* the table of a statement
TableOf(query) ==
    CASE query.sql.verb = "SELECTJOIN" -> query.params[5][1]
      [] query.sql.verb = "SELECT" -> query.params[Arity(query.sql.select) + 1][1]
      [] OTHER -> query.params[1][1]

\* the tables of the relations a relation specification names, in the order
\* given, the nested relations of a relation before its next sibling
RECURSIVE PlannedTables(_, _)
PlannedTables(cls, spec) ==
    IF spec.form = "path"
    THEN IF spec.path = <<>> THEN <<>>
         ELSE LET relation == relationMapGet(store[cls], spec.path[1])
              IN  IF relation.propertyKey = UNDEF THEN <<>>
                  ELSE <<store[relation.target].tableName>> \o
                       PlannedTables(relation.target, PathSpec(Tail(spec.path)))
    ELSE Flatten([i \in 1..Len(spec.entries) |->
            LET relation == relationMapGet(store[cls], spec.entries[i].k)
                config == spec.entries[i].v
            IN  IF relation.propertyKey = UNDEF THEN <<>>
                ELSE <<store[relation.target].tableName>> \o
                     Flatten([j \in 1..Len(config.relations) |->
                                PlannedTables(relation.target, config.relations[j])])])

\* the tables of the statements of a call: the entity's own (an INSERT or
\* UPDATE is followed by the SELECT that reads the row back), then those of
\* its relation specifications
PlannedOrder(call) ==
    <<store[call.cls].tableName>> \o
    (IF IsMutation(call) THEN <<store[call.cls].tableName>> ELSE <<>>) \o
    Flatten([i \in 1..Len(call.options.relations) |->
                PlannedTables(call.cls, call.options.relations[i])])

\* C26: while a call runs at most one statement awaits the connection's
\* answer, and it is the one dispatched last; the statements are dispatched
\* in the order of the relation specifications, the nested relations of a
\* relation before its next sibling; a statement is dispatched only when none
\* is awaiting an answer and the call has not failed; a statement the
\* connection rejects ends the call with the connection's error, and once
\* the call has thrown or returned nothing more is dispatched and what the
\* caller received does not change
C26_OneQueryInFlight ==
    /\ [](/\ Cardinality(flight.inflight) <= 1
          /\ flight.inflight \subseteq {flight.sent}
          /\ flight.sent <= Len(last.queries)
          /\ IsSubsequence([i \in 1..Len(last.queries) |-> TableOf(last.queries[i])],
                           PlannedOrder(last))
          /\ flight.pc = "rejected" <=> flight.err.kind # ""
          /\ flight.pc \in {"rejected", "resolved"} => flight.inflight = {})
    /\ [][/\ flight'.sent \in {flight.sent, flight.sent + 1}
          /\ flight'.sent = flight.sent + 1 =>
                flight.pc = "running" /\ flight.inflight = {}
          /\ (flight.inflight # {} /\ flight'.pc = "rejected") =>
                flight'.err = DbError /\ flight'.sent = flight.sent
          /\ flight.pc \in {"rejected", "resolved"} => flight' = flight]_vars

\* a read of four statements whose second statement the connection rejected:
\* the caller received that error and the last two were never dispatched
C26_Witness ==
    /\ flight.pc = "rejected"
    /\ flight.err = DbError
    /\ flight.sent = 2
    /\ Len(last.queries) = 4
    /\ last.err.kind = ""

(***************************************************************************)
(* The row written by create and update                                    *)
(***************************************************************************)
\* the columns a statement writes and the value of each: INSERT INTO ?? (??, ..)
\* VALUES (?, ..) or UPDATE ?? SET ?? = ?, ..
WrittenRow(query) ==
    LET n == Len(query.sql.set)
    IN  [i \in 1..n |->
            IF query.sql.verb = "UPDATE"
            THEN [k |-> query.params[2 * i][1], v |-> query.params[2 * i + 1][1]]
            ELSE [k |-> query.params[1 + i][1], v |-> query.params[1 + n + i][1]]]

RECURSIVE SetColumns(_, _)
\* the row of the properties the caller set: one key per registered property
\* whose value is not undefined, null kept
SetColumns(cls, entries) ==
    IF entries = <<>> THEN <<>>
    ELSE LET column == columnMapGet(store[cls], Head(entries).k)
             value == Head(entries).v
         IN  IF column.propertyKey = UNDEF \/ value = UNDEF
             THEN SetColumns(cls, Tail(entries))
             ELSE <<[k |-> column.columnName,
                     v |-> IF value = NULL THEN NULL
                           ELSE coerceToDB(column.type, value)]>>
                  \o SetColumns(cls, Tail(entries))

\* a create or update whose partial went through mapToDB and was dispatched
WritesRow(call) ==
    /\ call.op \in {"create", "update"}
    /\ ~call.arg.isInstance
    /\ ~HasBeforeSave(call.cls)
    /\ call.queries # <<>>

\* C27: the statement create or update dispatches writes exactly the
\* registered columns whose value in the caller's partial is not undefined,
\* null written as null: a property whose value is undefined and a property
\* that is not a registered column are not written.
C27_RowHasSetColumnsOnly ==
    WritesRow(last) =>
        WrittenRow(last.queries[1]) = SetColumns(last.cls, last.updates)

(***************************************************************************)
(* Placeholders and parameters                                             *)
(***************************************************************************)
\* the placeholder tokens of a sequence of tokens, in order
Marks(tokens) == SelectSeq(tokens, LAMBDA t : t \in {"??", "?", "(?)"})

\* the 15 placeholders of the join statement of loadManyToMany
JoinMarks == [i \in 1..15 |-> IF i = 15 THEN "(?)" ELSE "??"]

\* the placeholders of a statement in the order of its text
MarksOf(sql) ==
    CASE sql.verb = "SELECT" ->
            Marks(sql.select) \o <<"??">> \o Marks(Flatten(sql.where)) \o
            Marks(Flatten(sql.order)) \o Marks(sql.limit) \o Marks(sql.offset)
      [] sql.verb = "SELECTJOIN" ->
            JoinMarks \o Marks(Flatten(sql.where)) \o Marks(sql.limit)
      [] sql.verb = "INSERT" ->
            <<"??">> \o Marks(sql.select) \o Marks(Flatten(sql.set))
      [] sql.verb = "UPDATE" ->
            <<"??">> \o Marks(Flatten(sql.set)) \o Marks(Flatten(sql.where))
      [] OTHER -> <<"??">> \o Marks(Flatten(sql.where))

\* the position of the table among the parameters of a statement
TableAt(sql) ==
    CASE sql.verb = "SELECT" -> Arity(sql.select) + 1
      [] sql.verb = "SELECTJOIN" -> 5
      [] OTHER -> 1

\* the identifiers of the join statement that are not columns of its table:
\* the aliases, the join table and its columns
JoinNames == {4, 5} \cup 1..3 \cup 6..10 \cup {11, 13, 14}

\* parameter i of a statement is what placeholder i stands for: a table or a
\* column of the statement's table for ??, one value for ?
Meant(query, i) ==
    LET mark == MarksOf(query.sql)[i]
        param == query.params[i]
        table == query.params[TableAt(query.sql)][1]
    IN  IF mark = "??"
        THEN /\ IsIdent(param)
             /\ IF i = TableAt(query.sql) THEN param[1] \in DOMAIN TableColumns
                ELSE IF query.sql.verb = "SELECTJOIN" /\ i \in JoinNames THEN TRUE
                ELSE table \in DOMAIN TableColumns /\ IsColumnOf(table, param)
        ELSE mark = "?" => Len(param) = 1

\* a call of the repository that dispatched at least one statement
Dispatches(call) ==
    /\ call.op \in {"find", "findOne", "create", "update", "delete"}
    /\ call.queries # <<>>

\* C28: every statement find, findOne, create, update, delete or a relation
\* loader dispatches has as many parameters as its text has placeholders,
\* and parameter i is what placeholder i stands for: the table or a column of
\* the table at a ??, one value at a ?, a list or a value at (?).
C28_ParametersMatchPlaceholders ==
    Dispatches(last) =>
        \A k \in 1..Len(last.queries) :
            /\ Len(MarksOf(last.queries[k].sql)) = Len(last.queries[k].params)
            /\ \A i \in 1..Len(last.queries[k].params) : Meant(last.queries[k], i)

(***************************************************************************)
(* The text of the statements                                              *)
(***************************************************************************)
\* the tokens the text of a statement is made of besides its verb: the
\* placeholders, the separators, the operator templates, the directions and
\* the pagination keywords (findOne's text ends with the literal LIMIT 1)
FixedTokens ==
    {"??", "?", "(?)", ",", "AND", "ASC", "DESC", "LIMIT", "OFFSET", "1",
     "=", "<>", ">", ">=", "<", "<=", "IN", "LIKE", "BETWEEN", "NOT BETWEEN",
     "IS NULL", "EXISTS", "NOT EXISTS"}

\* every token of the text of a statement
TokensOf(sql) ==
    Range(sql.select) \cup Range(Flatten(sql.set)) \cup Range(Flatten(sql.where))
    \cup Range(Flatten(sql.order)) \cup Range(sql.limit) \cup Range(sql.offset)

\* C29: the text of every statement a call dispatches is made of fixed
\* tokens only (keywords, operator templates, ASC or DESC, placeholders): no
\* field name, where value, direction string or number of the caller stands
\* in the text, they stand among the parameters.
C29_TextOfFixedTokens ==
    Dispatches(last) =>
        \A k \in 1..Len(last.queries) : TokensOf(last.queries[k].sql) \subseteq FixedTokens

(***************************************************************************)
(* Soft-deleted targets of relations                                       *)
(***************************************************************************)
\* the stored row an entity was loaded from is soft-deleted
IsSoftDeleted(tables, item) ==
    LET metadata == store[item.cls]
    IN  /\ Truthy(metadata.softDelete)
        /\ \E j \in 1..Len(tables[metadata.tableName]) :
              /\ tables[metadata.tableName][j]["id"] = Get(item.props, "id")
              /\ tables[metadata.tableName][j][metadata.softDeleteColumn] # NULL

\* the entities attached to the parents of a read, with the relation of each
AttachedTargets(call) ==
    UNION { UNION { { [relation |-> relationMapGet(store[call.cls], parent.rels[i].k),
                       item |-> parent.rels[i].v.items[j]] :
                        j \in 1..Len(parent.rels[i].v.items) } :
                    i \in 1..Len(parent.rels) } :
            parent \in Range(Parents(call)) }

\* C30: no entity that relation loading attaches to a parent comes from a
\* soft-deleted row, for a relation of any of the four kinds, declared or
\* configured with a where or without one.
C30_NoSoftDeletedTarget ==
    (last.op \in {"find", "findOne"} /\ last.err.kind = "") =>
        \A a \in AttachedTargets(last) :
            a.item.cls # UNDEF => ~IsSoftDeleted(last.before, a.item)

====
